---------------------------- MODULE Spec2Model ----------------------------
(***************************************************************************)
(* ChurchMolFS: the Church DNA-storage codec (church_algorithm_encoder.py, *)
(* church_algorithm_decoder.py) and its MolFS device interface             *)
(* (church_interface.py).                                                  *)
(*                                                                         *)
(* Bit strings are sequences of 0/1 (most significant bit first, as the    *)
(* Python strings of '0'/'1'), DNA strings are sequences of the one-letter *)
(* strings "A","C","G","T", byte strings are sequences of 0..255.          *)
(***************************************************************************)
EXTENDS Integers, Sequences, FiniteSets, TLC

(***************************************************************************)
(* Program constants.                                                      *)
(***************************************************************************)
HOMOPOLYMER_LIMIT == 3
ADDRESS_BITS == 19
PAYLOAD_BITS == 96
CRC_BITS == 32
PRIMER_LEN == 22
bytes_per_oligo == 12
DEFAULT_MAX_ADDRESS == 524288
DEFAULT_BLOCK_SIZE == 5120

DEFAULT_FORWARD_PRIMER == <<"C","T","A","C","A","C","G","A","C","G","C","T","C","T","T","C","C","G","A","T","C","T">>
DEFAULT_REVERSE_PRIMER == <<"A","G","A","T","C","G","G","A","A","G","A","G","C","G","G","T","T","C","A","G","C","A">>

\* A primer argument that was not supplied (Python None).
NonePrimer == <<"None">>

Bases == {"A", "C", "G", "T"}

(***************************************************************************)
(* Generic helpers on sequences.                                           *)
(***************************************************************************)
Min(a, b) == IF a <= b THEN a ELSE b

Max(a, b) == IF a >= b THEN a ELSE b

Zeros(n) == [i \in 1..n |-> 0]

\* s[from:to] of Python, with 0-based half-open bounds clipped to the string.
Slice(s, from, to) == SubSeq(s, from + 1, Min(to, Len(s)))

StartsWith(s, p) == Len(p) <= Len(s) /\ SubSeq(s, 1, Len(p)) = p

EndsWith(s, p) == Len(p) <= Len(s) /\ SubSeq(s, Len(s) - Len(p) + 1, Len(s)) = p

RECURSIVE Flatten(_)
Flatten(ss) == IF ss = <<>> THEN <<>> ELSE Head(ss) \o Flatten(Tail(ss))

\* Longest run of identical consecutive elements of s.
RECURSIVE RunFrom(_, _)
RunFrom(s, i) ==
    IF i < Len(s) /\ s[i + 1] = s[i] THEN 1 + RunFrom(s, i + 1) ELSE 1

HasRun(s, n) == \E i \in 1..Len(s) : RunFrom(s, i) >= n

(***************************************************************************)
(* Integers and bytes as bit strings.                                      *)
(***************************************************************************)
\* bin(n) without the prefix: the shortest binary numeral of n >= 0.
RECURSIVE ToBin(_)
ToBin(n) == IF n < 2 THEN <<n>> ELSE Append(ToBin(n \div 2), n % 2)

\* f"{n:0{w}b}": padded on the left to w digits, never truncated.
FormatBits(n, w) ==
    LET b == ToBin(n) IN IF Len(b) >= w THEN b ELSE Zeros(w - Len(b)) \o b

\* int(bits, 2)
RECURSIVE BitsToInt(_)
BitsToInt(bits) ==
    IF bits = <<>> THEN 0
    ELSE 2 * BitsToInt(SubSeq(bits, 1, Len(bits) - 1)) + bits[Len(bits)]

\* ''.join(f"{byte:08b}" for byte in data)
BytesToBits(data) == Flatten([i \in 1..Len(data) |-> FormatBits(data[i], 8)])

\* int(bits[:n*8], 2).to_bytes(n, 'big') for n = len(bits) // 8
bitstream_to_bytes(bitstream) ==
    [i \in 1..(Len(bitstream) \div 8) |->
        BitsToInt(SubSeq(bitstream, 8 * (i - 1) + 1, 8 * i))]

(***************************************************************************)
(* zlib.crc32: the reflected CRC-32 (polynomial 0xEDB88320, initial value  *)
(* and final xor 0xFFFFFFFF).  The register is a 32-bit sequence with the  *)
(* least significant bit first; TLC integers are too narrow to hold it.    *)
(***************************************************************************)
CRC_POLY == <<0,0,0,0,0,1,0,0,1,1,0,0,0,0,0,1,0,0,0,1,1,1,0,1,1,0,1,1,0,1,1,1>>

Xor(a, b) == IF a = b THEN 0 ELSE 1

\* The one element of a singleton set: The({e : x \in {d}}) is e with x bound
\* to the value of d, computed once.
The(S) == CHOOSE v \in S : TRUE

\* The register after a step whose feedback bit is fb: crc >> 1, xored with the
\* polynomial if fb = 1.
CrcShifted(reg, fb) ==
    LET nx(i) == Xor(reg[i + 1], CRC_POLY[i])
    IN  IF fb = 0
        THEN SubSeq(reg, 2, 32) \o <<0>>
        ELSE << nx(1), nx(2), nx(3), nx(4), nx(5), nx(6), nx(7), nx(8),
                nx(9), nx(10), nx(11), nx(12), nx(13), nx(14), nx(15), nx(16),
                nx(17), nx(18), nx(19), nx(20), nx(21), nx(22), nx(23), nx(24),
                nx(25), nx(26), nx(27), nx(28), nx(29), nx(30), nx(31), CRC_POLY[32] >>

\* One step of the shift register: crc = (crc >> 1) ^ (POLY if (crc ^ bit) & 1
\* else 0).
CrcShift(reg, bit) == CrcShifted(reg, Xor(reg[1], bit))

\* Feeds byte number k (1-based) of the bit string, least significant bit first.
CrcByte(reg, bits, k) ==
    CrcShift(CrcShift(CrcShift(CrcShift(CrcShift(CrcShift(CrcShift(CrcShift(
        reg, bits[8 * k]), bits[8 * k - 1]), bits[8 * k - 2]), bits[8 * k - 3]),
        bits[8 * k - 4]), bits[8 * k - 5]), bits[8 * k - 6]), bits[8 * k - 7])

RECURSIVE CrcFeed(_, _, _)
CrcFeed(reg, bits, k) ==
    IF 8 * k > Len(bits) THEN reg
    ELSE The({ CrcFeed(r, bits, k + 1) : r \in {CrcByte(reg, bits, k)} })

\* zlib.crc32(bytes) formatted as f"{checksum:032b}".
Crc32Bits(byteBits) ==
    The({ SubSeq([j \in 1..32 |-> 1 - reg[33 - j]], 1, 32) :
          reg \in {CrcFeed([i \in 1..32 |-> 1], byteBits, 1)} })

\* int(data_bits, 2).to_bytes((len(data_bits) + 7) // 8, 'big'), as bits: the
\* numeral is padded on the left to a whole number of bytes.
BitsAsBytes(data_bits) ==
    Zeros(8 * ((Len(data_bits) + 7) \div 8) - Len(data_bits)) \o data_bits

calculate_crc32_checksum(data_bits) == Crc32Bits(BitsAsBytes(data_bits))

\* A verification that looks at the shape of the checksum only.
verify_checksum_shape(data_bits, checksum_bits) ==
    Len(checksum_bits) = CRC_BITS /\ Len(data_bits) > 0

verify_crc32_checksum(data_bits, checksum_bits) ==
    Crc32Bits(BitsAsBytes(data_bits)) = checksum_bits

(***************************************************************************)
(* Symbol codec (encoder lines 10-36, decoder lines 9-25).                 *)
(*                                                                         *)
(* random.choice is a stream of draws from {1, 2}.  A random source rnd is *)
(* a finite pattern that the stream repeats; draw number k is Choice(rnd,  *)
(* k).  Every operator that draws takes the number of draws made before it.*)
(***************************************************************************)
BIT_TO_BASE(bit) == IF bit = 0 THEN <<"A", "C">> ELSE <<"G", "T">>

BASE_TO_BIT(base) == IF base \in {"A", "C"} THEN 0 ELSE 1

\* A substitution that leaves the bit class of the base.
synonyms_across(base) ==
    CASE base = "A" -> "G" [] base = "C" -> "T" [] base = "G" -> "A" [] base = "T" -> "C"

synonyms(base) ==
    CASE base = "A" -> "C" [] base = "C" -> "A" [] base = "G" -> "T" [] base = "T" -> "G"

Choice(rnd, k) == rnd[((k - 1) % Len(rnd)) + 1]

avoid_homopolymer(last_bases, base) ==
    IF Len(last_bases) >= HOMOPOLYMER_LIMIT
       /\ \A i \in (Len(last_bases) - HOMOPOLYMER_LIMIT + 1)..Len(last_bases) :
              last_bases[i] = base
    THEN synonyms(base)
    ELSE base

\* Lines 32-35: the chosen base joins the window, which keeps its last
\* HOMOPOLYMER_LIMIT entries, and the output.
EncodePush(st, base) ==
    LET appended == Append(st.last_bases, base)
    IN  [last_bases |-> IF Len(appended) > HOMOPOLYMER_LIMIT THEN Tail(appended)
                        ELSE appended,
         dna_seq |-> Append(st.dna_seq, base)]

\* One iteration of the loop of encode_bits_to_dna, for bit i (none if the bits
\* are exhausted); st holds last_bases and dna_seq, drawn counts the draws made
\* before the call.
EncodeStep(st, bits, i, rnd, drawn) ==
    IF i > Len(bits) THEN st
    ELSE EncodePush(st, avoid_homopolymer(st.last_bases,
                                          BIT_TO_BASE(bits[i])[Choice(rnd, drawn + i)]))

\* Eight iterations at a time keep TLC's evaluation stack shallow.
EncodeStep8(st, bits, i, rnd, drawn) ==
    EncodeStep(EncodeStep(EncodeStep(EncodeStep(EncodeStep(EncodeStep(EncodeStep(EncodeStep(
        st, bits, i, rnd, drawn), bits, i + 1, rnd, drawn), bits, i + 2, rnd, drawn),
        bits, i + 3, rnd, drawn), bits, i + 4, rnd, drawn), bits, i + 5, rnd, drawn),
        bits, i + 6, rnd, drawn), bits, i + 7, rnd, drawn)

RECURSIVE EncodeLoop(_, _, _, _, _)
EncodeLoop(st, bits, i, rnd, drawn) ==
    IF i > Len(bits) THEN st
    ELSE The({ EncodeLoop(next, bits, i + 8, rnd, drawn) :
               next \in {EncodeStep8(st, bits, i, rnd, drawn)} })

encode_bits_to_dna(bits, last_bases, rnd, drawn) ==
    EncodeLoop([last_bases |-> last_bases, dna_seq |-> <<>>], bits, 1, rnd, drawn).dna_seq

\* A symbol outside the alphabet makes BASE_TO_BIT[base] raise KeyError.
DecodableDna(dna_sequence) == \A i \in 1..Len(dna_sequence) : dna_sequence[i] \in Bases

decode_dna_to_bits(dna_sequence) ==
    [i \in 1..Len(dna_sequence) |-> BASE_TO_BIT(dna_sequence[i])]

(***************************************************************************)
(* Oligo framing (encoder lines 45-102, decoder lines 47-77).              *)
(***************************************************************************)
\* Python truth value of a primer argument: None and "" are false.
Truthy(primer) == primer # NonePrimer /\ primer # <<>>

DrawsPerOligo == ADDRESS_BITS + PAYLOAD_BITS + CRC_BITS

\* chunk.ljust(width, '0')
LJust(chunk, width) ==
    IF Len(chunk) >= width THEN chunk ELSE chunk \o Zeros(width - Len(chunk))

\* bits[i:i + segment_length * 8].ljust(96, '0')
SegmentBits(bits, i, segment_length) ==
    LJust(Slice(bits, i, i + segment_length * 8), PAYLOAD_BITS)

\* Lines 91-100: the flanks around the three encoded fields.
FrameOligo(core_oligo, forward_primer, reverse_primer) ==
    (IF Truthy(forward_primer) THEN forward_primer ELSE <<>>)
        \o core_oligo
        \o (IF Truthy(reverse_primer) THEN reverse_primer ELSE <<>>)

\* An encoder that carries one window through the three fields of a segment.
EncodeFieldsShared(address_bits, data_bits, crc32_checksum_bits, forward_primer, reverse_primer, last_bases, rnd, d0) ==
    LET a == EncodeLoop([last_bases |-> last_bases, dna_seq |-> <<>>], address_bits, 1, rnd, d0)
        p == EncodeLoop([last_bases |-> a.last_bases, dna_seq |-> <<>>], data_bits, 1, rnd,
                        d0 + Len(address_bits))
        c == EncodeLoop([last_bases |-> p.last_bases, dna_seq |-> <<>>], crc32_checksum_bits,
                        1, rnd, d0 + Len(address_bits) + Len(data_bits))
    IN  [address_bits |-> address_bits,
         data_bits |-> data_bits,
         crc32 |-> crc32_checksum_bits,
         oligo |-> FrameOligo(a.dna_seq \o p.dna_seq \o c.dna_seq, forward_primer,
                              reverse_primer)]

\* Lines 70-100 for one segment: the address and the payload with its checksum
\* are each encoded from a copy of the function's window last_bases, which no
\* statement of the function ever changes.  d0 counts the draws made before.
EncodeFields(address_bits, data_bits, crc32_checksum_bits, forward_primer, reverse_primer, last_bases, rnd, d0) ==
    [address_bits |-> address_bits,
     data_bits |-> data_bits,
     crc32 |-> crc32_checksum_bits,
     oligo |-> FrameOligo(
         encode_bits_to_dna(address_bits, last_bases, rnd, d0)
             \o encode_bits_to_dna(data_bits, last_bases, rnd, d0 + Len(address_bits))
             \o encode_bits_to_dna(crc32_checksum_bits, last_bases, rnd,
                                   d0 + Len(address_bits) + Len(data_bits)),
         forward_primer, reverse_primer)]

\* One iteration of the loop of bits_to_dna_with_crc32, for the given address.
EncodeSegment(bits, address, forward_primer, reverse_primer, segment_length, rnd, drawn) ==
    The({ EncodeFields(FormatBits(address, ADDRESS_BITS), data_bits,
                       calculate_crc32_checksum(data_bits), forward_primer, reverse_primer,
                       <<>>, rnd, drawn + (address - 1) * DrawsPerOligo) :
          data_bits \in {SegmentBits(bits, (address - 1) * segment_length * 8,
                                     segment_length)} })

\* A count that leaves out a partial last segment.
SegmentCountWhole(bits, segment_length, max_address) ==
    Min(Len(bits) \div (segment_length * 8), Max(max_address, 0))

\* The number of segments: range(0, len(bits), segment_length * 8) cut short by
\* the break at address > max_address.
SegmentCount(bits, segment_length, max_address) ==
    Min((Len(bits) + segment_length * 8 - 1) \div (segment_length * 8), Max(max_address, 0))

bits_to_dna_with_crc32(bits, forward_primer, reverse_primer, segment_length, max_address, rnd, drawn) ==
    [a \in 1..SegmentCount(bits, segment_length, max_address) |->
        EncodeSegment(bits, a, forward_primer, reverse_primer, segment_length, rnd, drawn)]

\* Lines 62-67: core_sequence[len(forward_primer):]
StripForward(oligo, forward_primer) ==
    IF Truthy(forward_primer) /\ StartsWith(oligo, forward_primer)
    THEN SubSeq(oligo, Len(forward_primer) + 1, Len(oligo))
    ELSE oligo

\* A decoder that leaves the reverse primer in place.
KeepReverse(core_sequence, reverse_primer) == core_sequence

\* Lines 66-67: core_sequence[:-len(reverse_primer)]
StripReverse(core_sequence, reverse_primer) ==
    IF Truthy(reverse_primer) /\ EndsWith(core_sequence, reverse_primer)
    THEN SubSeq(core_sequence, 1, Len(core_sequence) - Len(reverse_primer))
    ELSE core_sequence

\* Lines 69-77.  The value (None, None, None) is the record with ok = FALSE.
SplitCore(core_sequence) ==
    IF Len(core_sequence) >= ADDRESS_BITS + PAYLOAD_BITS
    THEN [ok |-> TRUE,
          address_dna |-> SubSeq(core_sequence, 1, ADDRESS_BITS),
          data_dna |-> SubSeq(core_sequence, ADDRESS_BITS + 1, ADDRESS_BITS + PAYLOAD_BITS),
          crc32_dna |-> SubSeq(core_sequence, ADDRESS_BITS + PAYLOAD_BITS + 1,
                               Len(core_sequence))]
    ELSE [ok |-> FALSE, address_dna |-> <<>>, data_dna |-> <<>>, crc32_dna |-> <<>>]

extract_oligo_parts(oligo, forward_primer, reverse_primer) ==
    SplitCore(StripReverse(StripForward(oligo, forward_primer), reverse_primer))

(***************************************************************************)
(* Files.  A binary file is a byte sequence; a file that does not exist is *)
(* NoFile.  A CSV file is the sequence of its data rows (the header row is *)
(* always the one save_to_csv_with_blocks writes).                         *)
(***************************************************************************)
NoFile == <<-1>>

\* One row of save_to_csv_with_blocks (encoder lines 142-152).
CsvRow(block_index, seg, block_size_bytes, actual_block_bytes, total_data_size) ==
    [block_index |-> block_index, address_bits |-> seg.address_bits,
     data_bits |-> seg.data_bits, crc32 |-> seg.crc32, oligo |-> seg.oligo,
     block_size_bytes |-> block_size_bytes,
     actual_block_bytes |-> actual_block_bytes,
     total_data_size |-> total_data_size]

(***************************************************************************)
(* encode_file_to_dna (encoder lines 154-243).                             *)
(***************************************************************************)
\* The primer checks of lines 171-181: the primers in use, and whether the
\* ValueError is raised.
EffectivePrimer(primer, default) == IF primer = NonePrimer THEN default ELSE primer

PrimerRejected(primer) == Truthy(primer) /\ Len(primer) # PRIMER_LEN

\* Lines 229-238: the rows that the oligos of one block contribute.
BlockRows(block_oligos, block_index, block_size_bytes, actual_block_bytes, total_data_size) ==
    [i \in 1..Len(block_oligos) |->
        CsvRow(block_index, block_oligos[i], block_size_bytes, actual_block_bytes,
               total_data_size)]

\* Lines 206-227 for the bits of one block; drawn counts the draws of the blocks
\* before it.
EncodeBlockBits(block_bits, block_index, forward_primer, reverse_primer, block_size_bytes, total_data_size, rnd, drawn) ==
    LET oligos_per_block == (block_size_bytes + bytes_per_oligo - 1) \div bytes_per_oligo
        actual_block_bytes == (Len(block_bits) + 7) \div 8
        actual_oligos_needed == (actual_block_bytes + bytes_per_oligo - 1) \div bytes_per_oligo
        max_address_for_block == Min(oligos_per_block, actual_oligos_needed)
    IN  BlockRows(bits_to_dna_with_crc32(block_bits, forward_primer, reverse_primer,
                                         bytes_per_oligo, max_address_for_block, rnd, drawn),
                  block_index, block_size_bytes, actual_block_bytes, total_data_size)

\* The rows of one block (lines 206-238): block_bits = bits[start_bit:end_bit].
EncodeBlockRows(bits, block_index, forward_primer, reverse_primer, block_size_bytes, total_data_size, rnd, drawn) ==
    EncodeBlockBits(Slice(bits, block_index * block_size_bytes * 8,
                          Min(block_index * block_size_bytes * 8 + block_size_bytes * 8,
                              Len(bits))),
                    block_index, forward_primer, reverse_primer, block_size_bytes,
                    total_data_size, rnd, drawn)

RECURSIVE EncodeBlocksFrom(_, _, _, _, _, _, _, _, _)
EncodeBlocksFrom(bits, block_index, num_blocks, forward_primer, reverse_primer, block_size_bytes, total_data_size, rnd, rows) ==
    IF block_index >= num_blocks THEN rows
    ELSE The({ EncodeBlocksFrom(bits, block_index + 1, num_blocks, forward_primer,
                                reverse_primer, block_size_bytes, total_data_size, rnd,
                                more) :
               more \in {rows \o EncodeBlockRows(bits, block_index, forward_primer,
                                                 reverse_primer, block_size_bytes,
                                                 total_data_size, rnd,
                                                 Len(rows) * DrawsPerOligo)} })

\* Lines 183-243 once the primers are accepted: rows is the CSV file written
\* and (num_oligos, total_data_size, num_blocks) is the value returned.
EncodeAccepted(rows, total_data_size, num_blocks) ==
    [raised |-> FALSE, rows |-> rows, num_oligos |-> Len(rows),
     total_data_size |-> total_data_size, num_blocks |-> num_blocks]

\* Lines 186-204: the bit string of the file and the number of blocks.
EncodeBits(bits, total_data_size, forward_primer, reverse_primer, block_size_bytes, rnd) ==
    EncodeAccepted(
        EncodeBlocksFrom(bits, 0,
                         ((Len(bits) \div 8) + block_size_bytes - 1) \div block_size_bytes,
                         forward_primer, reverse_primer, block_size_bytes, total_data_size,
                         rnd, <<>>),
        total_data_size,
        ((Len(bits) \div 8) + block_size_bytes - 1) \div block_size_bytes)

\* raised = TRUE stands for the ValueError of lines 178-181; then no CSV file is
\* written.
encode_file_to_dna(data, forward_primer_arg, reverse_primer_arg, block_size_bytes, rnd) ==
    LET forward_primer == EffectivePrimer(forward_primer_arg, DEFAULT_FORWARD_PRIMER)
        reverse_primer == EffectivePrimer(reverse_primer_arg, DEFAULT_REVERSE_PRIMER)
    IN  IF PrimerRejected(forward_primer) \/ PrimerRejected(reverse_primer)
        THEN [raised |-> TRUE, rows |-> <<>>, num_oligos |-> 0, total_data_size |-> 0,
              num_blocks |-> 0]
        ELSE EncodeBits(BytesToBits(data), Len(data), forward_primer, reverse_primer,
                        block_size_bytes, rnd)

(***************************************************************************)
(* decode_oligos_from_csv (decoder lines 79-216).                          *)
(***************************************************************************)
EmptyMap == [k \in {} |-> 0]

\* A map in which the first value stored under a key stays.
PutOnce(map, key, value) ==
    [k \in (DOMAIN map) \cup {key} |-> IF k \in DOMAIN map THEN map[k] ELSE value]

\* dict[key] = value
Put(map, key, value) == [k \in (DOMAIN map) \cup {key} |-> IF k = key THEN value ELSE map[k]]

\* The state of the row loop: decoded_blocks, block_info, block_indices and
\* the number of entries of errors.
DecodeStart ==
    [decoded_blocks |-> EmptyMap, block_size_bytes |-> 0, total_file_size |-> 0,
     actual_block_sizes |-> EmptyMap, valid |-> 0, invalid |-> 0, missing |-> 0,
     block_indices |-> {}, errors |-> 0]

\* Lines 123-140: the columns of the row that describe its block.
RowSeen(acc, row) ==
    [acc EXCEPT !.block_indices = @ \cup {row.block_index},
                !.block_size_bytes = row.block_size_bytes,
                !.actual_block_sizes = Put(@, row.block_index, row.actual_block_bytes),
                !.total_file_size = row.total_data_size]

\* A decoder that counts a row it leaves as a row without a checksum.
RowFailedCounted(sized) == [sized EXCEPT !.errors = @ + 1, !.missing = @ + 1]

\* An entry of errors is added and the row is left.
RowFailed(sized) == [sized EXCEPT !.errors = @ + 1]

\* A decoder that stores the payload of a row whatever its checksum says.
DecodeFieldsUngated(sized, block_index, address_bits, data_bits, crc32_dna) ==
    IF Len(crc32_dna) >= CRC_BITS /\ ~DecodableDna(SubSeq(crc32_dna, 1, CRC_BITS))
    THEN RowFailed(sized)
    ELSE [sized EXCEPT
              !.valid = IF Len(crc32_dna) >= CRC_BITS THEN @ + 1 ELSE @,
              !.missing = IF Len(crc32_dna) >= CRC_BITS THEN @ ELSE @ + 1,
              !.decoded_blocks = Put(@, <<block_index, BitsToInt(address_bits)>>, data_bits)]

\* Lines 154-170 for the decoded bits of one row.
DecodeFields(sized, block_index, address_bits, data_bits, crc32_dna) ==
    IF Len(crc32_dna) >= CRC_BITS
    THEN IF ~DecodableDna(SubSeq(crc32_dna, 1, CRC_BITS)) THEN RowFailed(sized)
         ELSE IF verify_crc32_checksum(data_bits,
                                       decode_dna_to_bits(SubSeq(crc32_dna, 1, CRC_BITS)))
              THEN [sized EXCEPT !.valid = @ + 1,
                                 !.decoded_blocks =
                                     Put(@, <<block_index, BitsToInt(address_bits)>>,
                                         data_bits)]
              ELSE [sized EXCEPT !.invalid = @ + 1, !.errors = @ + 1]
    ELSE [sized EXCEPT !.missing = @ + 1,
                       !.decoded_blocks =
                           Put(@, <<block_index, BitsToInt(address_bits)>>, data_bits)]

\* A decoder that counts a read without a whole checksum and leaves its payload
\* out of the map.
DecodePartsChecked(sized, block_index, parts) ==
    IF ~parts.ok THEN RowFailed(sized)
    ELSE IF ~DecodableDna(parts.address_dna) \/ ~DecodableDna(parts.data_dna)
         THEN RowFailed(sized)
    ELSE IF Len(parts.crc32_dna) < CRC_BITS THEN [sized EXCEPT !.missing = @ + 1]
    ELSE DecodeFields(sized, block_index, decode_dna_to_bits(parts.address_dna),
                      decode_dna_to_bits(parts.data_dna), parts.crc32_dna)

\* Lines 143-151 for the parts of one oligo.
DecodeParts(sized, block_index, parts) ==
    IF ~parts.ok THEN RowFailed(sized)
    ELSE IF ~DecodableDna(parts.address_dna) \/ ~DecodableDna(parts.data_dna)
         THEN RowFailed(sized)
    ELSE DecodeFields(sized, block_index, decode_dna_to_bits(parts.address_dna),
                      decode_dna_to_bits(parts.data_dna), parts.crc32_dna)

\* One iteration of the loop over the rows (lines 121-174).
DecodeRow(acc, row, forward_primer, reverse_primer) ==
    DecodeParts(RowSeen(acc, row), row.block_index,
                extract_oligo_parts(row.oligo, forward_primer, reverse_primer))

RECURSIVE DecodeRows(_, _, _, _, _)
DecodeRows(acc, rows, i, forward_primer, reverse_primer) ==
    IF i > Len(rows) THEN acc
    ELSE The({ DecodeRows(next, rows, i + 1, forward_primer, reverse_primer) :
               next \in {DecodeRow(acc, rows[i], forward_primer, reverse_primer)} })

\* sorted(decoded_blocks.keys()): pairs in lexicographic order.
KeyLess(a, b) == a[1] < b[1] \/ (a[1] = b[1] /\ a[2] < b[2])

RECURSIVE SortedKeys(_)
SortedKeys(keys) ==
    IF keys = {} THEN <<>>
    ELSE LET first == CHOOSE k \in keys : \A o \in keys \ {k} : KeyLess(k, o)
         IN  <<first>> \o SortedKeys(keys \ {first})

\* Lines 192-194: the payloads in the order of the sorted keys.
JoinBlocks(decoded_blocks, sorted_keys) ==
    Flatten([i \in 1..Len(sorted_keys) |-> decoded_blocks[sorted_keys[i]]])

\* Lines 196-200: the bit string is trimmed to the total file size if known.
TrimBitstream(joined, total_file_size) ==
    IF total_file_size > 0 THEN Slice(joined, 0, total_file_size * 8) ELSE joined

\* Lines 202-212: the file is written only if at least one whole byte results.
WriteBitstream(reconstructed_bitstream, before) ==
    IF Len(reconstructed_bitstream) \div 8 > 0
    THEN bitstream_to_bytes(reconstructed_bitstream)
    ELSE before

\* Lines 187-214: the content of output_file after the call, given its content
\* before; it is written only if something was decoded.
DecodedOutput(decoded_blocks, total_file_size, before) ==
    IF DOMAIN decoded_blocks = {} THEN before
    ELSE WriteBitstream(
             TrimBitstream(JoinBlocks(decoded_blocks, SortedKeys(DOMAIN decoded_blocks)),
                           total_file_size),
             before)

\* Lines 176-216: the returned pair with the content of output_file.
DecodeResult(acc, before) ==
    [decoded_blocks |-> acc.decoded_blocks,
     block_info |-> [block_size_bytes |-> acc.block_size_bytes,
                     block_count |-> Cardinality(acc.block_indices),
                     total_file_size |-> acc.total_file_size,
                     actual_block_sizes |-> acc.actual_block_sizes,
                     crc_stats |-> [valid |-> acc.valid, invalid |-> acc.invalid,
                                    missing |-> acc.missing]],
     errors |-> acc.errors,
     output |-> DecodedOutput(acc.decoded_blocks, acc.total_file_size, before)]

\* rows is the CSV file read; output is the new content of output_file.
decode_oligos_from_csv(rows, forward_primer, reverse_primer, before) ==
    The({ DecodeResult(acc, before) :
          acc \in {DecodeRows(DecodeStart, rows, 1, forward_primer, reverse_primer)} })

\* decode_oligos_from_fastq (decoder lines 218-315): the loop over the reads
\* (lines 256-291) classifies as the loop over the rows does, stores every
\* read under block 0 and keeps no list of errors.
RECURSIVE DecodeReads(_, _, _, _, _)
DecodeReads(acc, sequences, i, forward_primer, reverse_primer) ==
    IF i > Len(sequences) THEN acc
    ELSE The({ DecodeReads(next, sequences, i + 1, forward_primer, reverse_primer) :
               next \in {DecodeParts(acc, 0, extract_oligo_parts(sequences[i], forward_primer,
                                                                reverse_primer))} })

\* Lines 293-315: the block count and the file size come from the stored
\* segments, and the bit string is written untrimmed.
FastqResult(acc, before) ==
    [decoded_blocks |-> acc.decoded_blocks,
     block_info |-> [block_size_bytes |-> 0,
                     block_count |-> IF DOMAIN acc.decoded_blocks = {} THEN 0 ELSE 1,
                     total_file_size |-> (Cardinality(DOMAIN acc.decoded_blocks) * PAYLOAD_BITS)
                                             \div 8,
                     actual_block_sizes |-> EmptyMap,
                     crc_stats |-> [valid |-> acc.valid, invalid |-> acc.invalid,
                                    missing |-> acc.missing]],
     output |-> DecodedOutput(acc.decoded_blocks, 0, before)]

decode_oligos_from_fastq(sequences, forward_primer, reverse_primer, before) ==
    The({ FastqResult(acc, before) :
          acc \in {DecodeReads(DecodeStart, sequences, 1, forward_primer, reverse_primer)} })

(***************************************************************************)
(* MolFSDev (church_interface.py): the primer registry and the operations  *)
(* on one block.                                                           *)
(***************************************************************************)
\* The random source seen from d draws later.
Rotate(rnd, d) == [i \in 1..Len(rnd) |-> rnd[((i - 1 + d) % Len(rnd)) + 1]]

get_primers(registry, pool, block) ==
    IF <<pool, block>> \in DOMAIN registry THEN registry[<<pool, block>>]
    ELSE <<DEFAULT_FORWARD_PRIMER, DEFAULT_REVERSE_PRIMER>>

\* oSeq[:-len(reverse_primer)] after the test oSeq.endswith(reverse_primer), with
\* no test of the primer itself: for the empty primer the test holds and the
\* slice oSeq[:-0] is empty.
CutReverse(oSeq, reverse_primer) ==
    IF EndsWith(oSeq, reverse_primer)
    THEN (IF reverse_primer = <<>> THEN <<>>
          ELSE SubSeq(oSeq, 1, Len(oSeq) - Len(reverse_primer)))
    ELSE oSeq

\* The keys of the registry whose forward primer starts the sequence.
MatchingKeys(registry, sequence) ==
    {key \in DOMAIN registry : StartsWith(sequence, registry[key][1])}

\* Lines 485-496: no registered forward primer starts the sequence.
ClassifyUnknown(sequence) ==
    [cPool |-> -1, cBlock |-> -1,
     oSeq |-> IF StartsWith(sequence, DEFAULT_FORWARD_PRIMER)
              THEN CutReverse(SubSeq(sequence, PRIMER_LEN + 1, Len(sequence)),
                              DEFAULT_REVERSE_PRIMER)
              ELSE sequence]

\* Lines 475-483: the entry (pool, block) of the registry starts the sequence.
ClassifyMatch(key, primers, sequence) ==
    [cPool |-> key[1], cBlock |-> key[2],
     oSeq |-> CutReverse(SubSeq(sequence, Len(primers[1]) + 1, Len(sequence)), primers[2])]

\* ClassifySequence (lines 454-496).  The loop returns at the first entry, in
\* the order of registration, whose forward primer starts the sequence; the
\* registries of the model hold forward primers of which at most one starts a
\* given sequence.
ClassifySequence(registry, sequence) ==
    IF MatchingKeys(registry, sequence) = {} THEN ClassifyUnknown(sequence)
    ELSE The({ ClassifyMatch(key, registry[key], sequence) :
               key \in {CHOOSE k \in MatchingKeys(registry, sequence) : TRUE} })

\* Lines 154-176: the value of encode_block from the result of the encode pass.
\* success = FALSE is the except branch; rows is then not written.
BlockEncoded(enc, pool, block_index, block_size) ==
    IF enc.raised
    THEN [success |-> FALSE, rows |-> <<>>, info |-> EmptyMap, draws |-> 0]
    ELSE [success |-> TRUE, rows |-> enc.rows,
          info |-> [block_index |-> block_index, pool |-> pool,
                    block_size |-> block_size, num_oligos |-> enc.num_oligos],
          draws |-> enc.num_oligos * DrawsPerOligo]

\* Lines 143-152: the encode pass on the temporary file with the primers of
\* (pool, block_index).
EncodeBlockData(block_data, primers, pool, block_index, block_length, rnd) ==
    BlockEncoded(encode_file_to_dna(block_data, primers[1], primers[2], block_length, rnd),
                 pool, block_index, Len(block_data))

\* encode_block (lines 111-176) on the device whose current pool is pool: the
\* bytes read from the input file, the primers of (pool, block_index) and the
\* encode pass.
encode_block(data, registry, pool, block_index, start_offset, block_length, rnd) ==
    EncodeBlockData(Slice(data, start_offset, start_offset + block_length),
                    get_primers(registry, pool, block_index), pool, block_index,
                    block_length, rnd)

\* A decode that leaves the configured block size alone.
DecodedKeepsSize(dec, configured) ==
    LET success == DOMAIN dec.decoded_blocks # {}
    IN  [success |-> success,
         block_info |-> IF success THEN dec.block_info ELSE EmptyMap,
         output |-> dec.output,
         ValidDecode |-> success,
         block_size_bytes |-> configured]

\* Lines 301-328: the value of decode and the fields it updates.
Decoded(dec, configured) ==
    LET success == DOMAIN dec.decoded_blocks # {}
    IN  [success |-> success,
         block_info |-> IF success THEN dec.block_info ELSE EmptyMap,
         output |-> dec.output,
         ValidDecode |-> success,
         block_size_bytes |-> IF success /\ dec.block_info.block_size_bytes > 0
                              THEN dec.block_info.block_size_bytes ELSE configured]

\* Lines 283-299: the decode pass with the primers of (pool, block).
DecodeWith(rows, primers, before, configured) ==
    Decoded(decode_oligos_from_csv(rows, primers[1], primers[2], before), configured)

\* MolFSDev.decode (lines 263-328) of a CSV file: before is the content of
\* out_file before the call, configured the block size before it.
decode(rows, registry, pool, block, before, configured) ==
    DecodeWith(rows, get_primers(registry, pool, block), before, configured)

(***************************************************************************)
(* Distribution strategies: the default of encode_file (line 224) and the  *)
(* strategies of the tests, as the list of pools of a block.               *)
(***************************************************************************)
Policies == {"default", "simple", "redundant", "mirror"}

distribution_strategy(policy, block_idx, total_blocks) ==
    CASE policy = "default" -> <<(block_idx % 3) + 1>>
      [] policy = "simple" -> <<1>>
      [] policy = "redundant" -> IF block_idx = 1 THEN <<1, 2>> ELSE <<1>>
      [] policy = "mirror" -> <<1, 2>>

\* An encode_file that evaluates the policy for block 0 and sends every block
\* to the pools it names.
RECURSIVE EncodeJobsFirst(_, _, _)
EncodeJobsFirst(policy, block_idx, total_blocks) ==
    IF block_idx >= total_blocks THEN <<>>
    ELSE LET target_pools == distribution_strategy(policy, 0, total_blocks)
         IN  [k \in 1..Len(target_pools) |-> <<block_idx, target_pools[k]>>]
             \o EncodeJobsFirst(policy, block_idx + 1, total_blocks)

\* The (block, pool) pairs of the two nested loops of encode_file, in order.
RECURSIVE EncodeJobs(_, _, _)
EncodeJobs(policy, block_idx, total_blocks) ==
    IF block_idx >= total_blocks THEN <<>>
    ELSE LET target_pools == distribution_strategy(policy, block_idx, total_blocks)
         IN  [k \in 1..Len(target_pools) |-> <<block_idx, target_pools[k]>>]
             \o EncodeJobs(policy, block_idx + 1, total_blocks)

\* Lines 249-258: what one encoded block leaves; st holds the CSV files,
\* block_distribution, the random source and Pool, Block.
JobDone(st, res, pool_idx, block_idx) ==
    [csv |-> IF res.success THEN Put(st.csv, <<pool_idx, block_idx>>, res.rows) ELSE st.csv,
     block_distribution |-> IF res.success
                            THEN Put(st.block_distribution, <<pool_idx, block_idx>>,
                                     [file |-> <<pool_idx, block_idx>>, info |-> res.info])
                            ELSE st.block_distribution,
     rnd |-> Rotate(st.rnd, res.draws),
     Pool |-> pool_idx,
     Block |-> block_idx]

\* The body of the inner loop of encode_file (lines 238-258) for one pair.
EncodeJob(st, job, data, registry, configured) ==
    JobDone(st,
            encode_block(data, registry, job[2], job[1], job[1] * configured,
                         Min(configured, Len(data) - job[1] * configured), st.rnd),
            job[2], job[1])

RECURSIVE RunEncodeJobs(_, _, _, _, _, _)
RunEncodeJobs(st, jobs, i, data, registry, configured) ==
    IF i > Len(jobs) THEN st
    ELSE The({ RunEncodeJobs(next, jobs, i + 1, data, registry, configured) :
               next \in {EncodeJob(st, jobs[i], data, registry, configured)} })

\* encode_file (lines 199-261).
encode_file(data, csv, registry, pool, block, configured, policy, rnd) ==
    LET file_size == Len(data)
        total_blocks == (file_size + configured - 1) \div configured
    IN  RunEncodeJobs([csv |-> csv, block_distribution |-> EmptyMap, rnd |-> rnd,
                       Pool |-> pool, Block |-> block],
                      EncodeJobs(policy, 0, total_blocks), 1, data, registry, configured)

(***************************************************************************)
(* Bounds of the model and the inputs drawn from them.                     *)
(***************************************************************************)
MaxFileLen == 13
SmallBlockSize == 7
TinyBlockSize == 5
SynPeriod == 1
MaxRegistered == 1
MaxCorrupt == 1
MaxListLen == 2

\* The input files.  Byte i of a "mixed" file is (37 i + 200) mod 256: the
\* bytes are non-zero and pairwise different, and the first starts with the
\* bits 111.  The other kinds are the all-zero and the all-one inputs.
FileKinds == {"mixed", "zeros", "ones"}

ByteOf(kind, i) ==
    CASE kind = "mixed" -> (37 * i + 200) % 256
      [] kind = "zeros" -> 0
      [] kind = "ones" -> 255

FileOf(kind, n) == [i \in 1..n |-> ByteOf(kind, i)]

\* The files of the codec specification: every kind and every length.
CodecFiles == {FileOf(kind, n) : kind \in FileKinds, n \in 0..MaxFileLen}

\* The files of the device specifications, one for each relation between the
\* file and the small block size: empty, exactly a block, and several blocks
\* (and, under the default block size, more than one segment in a block).
Files == {FileOf("mixed", n) : n \in {0, SmallBlockSize, MaxFileLen}}

\* The payloads of the checksum specification: the padded segments of the
\* files.
Payloads == {LJust(BytesToBits(FileOf(kind, n)), PAYLOAD_BITS) :
                 kind \in FileKinds, n \in 0..Min(MaxFileLen, bytes_per_oligo)}

RandomSources == [1..SynPeriod -> {1, 2}]

BlockSizes == {SmallBlockSize, DEFAULT_BLOCK_SIZE}

CodecBlockSizes == {SmallBlockSize, bytes_per_oligo, DEFAULT_BLOCK_SIZE}

\* The block sizes of the reporting specification: the longest file makes
\* three blocks of the tiny size and two of the small one.
ReportBlockSizes == {TinyBlockSize, SmallBlockSize}

\* The primer pairs test_church_algorithm.py registers (lines 164-167).
F_1_1 == <<"C","T","A","C","A","C","G","A","C","A","C","T","T","T","T","C","C","G","A","T","C","T">>
R_1_1 == <<"A","G","A","T","C","G","G","A","A","G","A","G","C","G","G","A","A","C","A","G","C","A">>
F_2_1 == <<"C","T","A","C","A","C","G","A","C","G","C","T","T","A","A","C","C","G","A","T","C","T">>
R_2_1 == <<"A","G","A","T","C","G","G","A","A","G","A","G","C","G","G","A","T","C","A","G","C","A">>

TestPrimers ==
    [k \in {<<1, 0>>, <<1, 1>>, <<2, 1>>} |->
        CASE k = <<1, 0>> -> <<DEFAULT_FORWARD_PRIMER, DEFAULT_REVERSE_PRIMER>>
          [] k = <<1, 1>> -> <<F_1_1, R_1_1>>
          [] k = <<2, 1>> -> <<F_2_1, R_2_1>>]

\* A CSV file is named by the (pool, block) pair that reconstruct_file parses
\* from its name (lines 353-363); every other name parses to (-1, -1).
PlainName == <<-1, -1>>

(***************************************************************************)
(* State.                                                                  *)
(***************************************************************************)
VARIABLES
    in_file,          \* the input binary file
    random_state,     \* the source random.choice draws from
    csv_files,        \* the CSV files written so far, by name
    damaged,          \* the names of the CSV files altered after they were written
    temp_dir,         \* self.temp_dir: block_<idx>.bin by idx
    decoded_file,     \* the out_file of a direct decode call
    output_file,      \* the output_file of reconstruct_file
    Pool, Block, block_size_bytes, ValidDecode, primer_registry,
    pc,               \* "idle", or "reconstruct" inside reconstruct_file
    block_files,      \* reconstruct_file: the files still to be processed
    blocks_by_index,  \* reconstruct_file: the copy kept for each block index
    file_info,        \* reconstruct_file: the information returned
    run_files,        \* the list the current or last reconstruct_file was given
    decoded_copies,   \* history: what each successful decode of that call returned
    failed_runs,      \* history: the value of each failed call with the indices absent
    encodes_left,     \* how many more encode calls the caller makes
    damage_left,      \* how many more symbols get damaged
    runs_left,        \* how many more reconstruct_file calls the caller makes
    payload,          \* checksum specification: the payload sent
    checksum,         \* checksum specification: its checksum
    received,         \* checksum specification: the payload received
    verified,         \* checksum specification: the verdict on the received pair
    call,             \* the function called last on its own, with its arguments
    loop,             \* the loop of bits_to_dna_with_crc32, run one iteration at a time
    passes,           \* the encode passes that run interleaved on the device
    temp_block_files, \* self.temp_dir: temp_block_<idx>.bin by idx
    ret               \* the last operation and what it returned

devVars == <<Pool, Block, block_size_bytes, ValidDecode, primer_registry>>

fsVars == <<csv_files, damaged, temp_dir, decoded_file, output_file>>

runVars == <<pc, block_files, blocks_by_index, file_info, run_files, decoded_copies,
             failed_runs>>

countVars == <<encodes_left, damage_left, runs_left>>

crcVars == <<payload, checksum, received, verified>>

passVars == <<passes, temp_block_files>>

unitVars == <<call, loop, passVars>>

vars == <<in_file, random_state, devVars, fsVars, runVars, countVars, crcVars, unitVars, ret>>

NoReturn == [op |-> "none", success |-> FALSE, value |-> [none |-> TRUE]]

EmptyFileInfo == [total_blocks |-> 0, total_bytes |-> 0, pools_used |-> {}]

\* MolFSDev.__init__ (lines 32-57): the device before any call.
InitDevice ==
    /\ Pool = 0
    /\ Block = 0
    /\ block_size_bytes = DEFAULT_BLOCK_SIZE
    /\ ValidDecode = FALSE
    /\ primer_registry = EmptyMap
    /\ csv_files = EmptyMap
    /\ damaged = {}
    /\ temp_dir = EmptyMap
    /\ decoded_file = NoFile
    /\ output_file = NoFile
    /\ pc = "idle"
    /\ block_files = <<>>
    /\ blocks_by_index = EmptyMap
    /\ file_info = EmptyFileInfo
    /\ run_files = <<>>
    /\ decoded_copies = <<>>
    /\ failed_runs = {}
    /\ ret = NoReturn

\* No checksum is being computed.
InitNoCrc ==
    /\ payload = <<>>
    /\ checksum = <<>>
    /\ received = <<>>
    /\ verified = <<>>

NoCall == [fn |-> "none", args |-> <<>>]

NoLoop == [pc |-> "none"]

\* No function is called on its own.
InitNoUnit ==
    /\ call = NoCall
    /\ loop = NoLoop
    /\ passes = <<>>
    /\ temp_block_files = EmptyMap

\* The random source of the device specifications.
DeviceSeed == <<1, 2>>

\* A caller that encodes one of the files once with encode_file, may damage
\* the stored records, and reconstructs once.
Init ==
    /\ in_file \in Files
    /\ random_state = DeviceSeed
    /\ encodes_left = 1
    /\ damage_left = MaxCorrupt
    /\ runs_left = 1
    /\ InitDevice
    /\ InitNoCrc
    /\ InitNoUnit

(***************************************************************************)
(* The codec called directly: encode_file_to_dna on the input file, then   *)
(* decode_oligos_from_csv on the CSV file it wrote, with the default       *)
(* primers the encoder falls back to.                                      *)
(***************************************************************************)
CodecEncode(size_bytes) ==
    /\ pc = "idle"
    /\ PlainName \notin DOMAIN csv_files
    /\ call' = [fn |-> "encode_file_to_dna",
                args |-> <<NonePrimer, NonePrimer, size_bytes, random_state>>]
    /\ \E res \in {encode_file_to_dna(in_file, NonePrimer, NonePrimer, size_bytes,
                                      random_state)} :
           /\ csv_files' = IF res.raised THEN csv_files
                           ELSE Put(csv_files, PlainName, res.rows)
           /\ random_state' = Rotate(random_state, res.num_oligos * DrawsPerOligo)
           /\ ret' = [op |-> "encode_file_to_dna", success |-> ~res.raised,
                      value |-> <<res.num_oligos, res.total_data_size, res.num_blocks>>]
    /\ UNCHANGED <<in_file, devVars, damaged, temp_dir, decoded_file, output_file, runVars,
                   countVars, crcVars, loop, passVars>>

CodecDecode ==
    /\ pc = "idle"
    /\ PlainName \in DOMAIN csv_files
    /\ ret.op \in {"encode_file_to_dna", "mangle", "shuffle"}
    /\ \E res \in {decode_oligos_from_csv(csv_files[PlainName], DEFAULT_FORWARD_PRIMER,
                                          DEFAULT_REVERSE_PRIMER, decoded_file)} :
           /\ decoded_file' = res.output
           /\ ret' = [op |-> "decode_oligos_from_csv", success |-> TRUE,
                      value |-> <<res.decoded_blocks, res.block_info>>]
    /\ UNCHANGED <<in_file, random_state, devVars, csv_files, damaged, temp_dir, output_file,
                   runVars, countVars, crcVars, unitVars>>

(***************************************************************************)
(* The checksum pair called directly: calculate_crc32_checksum where the   *)
(* payload is encoded, at most one bit of the payload changed on the way,  *)
(* and verify_crc32_checksum where it is decoded.                          *)
(***************************************************************************)
CrcCalculate ==
    /\ payload # <<>>
    /\ checksum = <<>>
    /\ checksum' = calculate_crc32_checksum(payload)
    /\ UNCHANGED <<in_file, random_state, devVars, fsVars, runVars, countVars, payload,
                   received, verified, unitVars, ret>>

\* Position 0 stands for the unmodified payload.
FlipBit(bits, i) == [k \in 1..Len(bits) |-> IF k = i THEN 1 - bits[k] ELSE bits[k]]

CrcReceive(i) ==
    /\ checksum # <<>>
    /\ received = <<>>
    /\ received' = FlipBit(payload, i)
    /\ UNCHANGED <<in_file, random_state, devVars, fsVars, runVars, countVars, payload,
                   checksum, verified, unitVars, ret>>

CrcVerify ==
    /\ received # <<>>
    /\ verified = <<>>
    /\ verified' = <<verify_crc32_checksum(received, checksum)>>
    /\ UNCHANGED <<in_file, random_state, devVars, fsVars, runVars, countVars, payload,
                   checksum, received, unitVars, ret>>

(***************************************************************************)
(* Operations of MolFSDev.                                                 *)
(***************************************************************************)
\* set_block_size (lines 69-76), by a caller that configures before it encodes.
SetBlockSize(size_bytes) ==
    /\ pc = "idle"
    /\ csv_files = EmptyMap
    /\ block_size_bytes # size_bytes
    /\ block_size_bytes' = size_bytes
    /\ ret' = [op |-> "set_block_size", success |-> TRUE,
               value |-> [block_size_bytes |-> size_bytes]]
    /\ UNCHANGED <<in_file, random_state, Pool, Block, ValidDecode, primer_registry,
                   fsVars, runVars, countVars, crcVars, unitVars>>

\* register_primers (lines 78-89), by a caller that registers before it encodes.
RegisterPrimers(key) ==
    /\ pc = "idle"
    /\ csv_files = EmptyMap
    /\ key \notin DOMAIN primer_registry
    /\ Cardinality(DOMAIN primer_registry) < MaxRegistered
    /\ primer_registry' = Put(primer_registry, key, TestPrimers[key])
    /\ ret' = [op |-> "register_primers", success |-> TRUE, value |-> key]
    /\ UNCHANGED <<in_file, random_state, Pool, Block, block_size_bytes, ValidDecode,
                   fsVars, runVars, countVars, crcVars, unitVars>>

\* The caller assigns Pool and Block, as the tests do (test lines 77-78).
SetPoolBlock(key) ==
    /\ pc = "idle"
    /\ key \in DOMAIN primer_registry
    /\ <<Pool, Block>> # key
    /\ Pool' = key[1]
    /\ Block' = key[2]
    /\ ret' = [op |-> "set_pool_block", success |-> TRUE, value |-> key]
    /\ UNCHANGED <<in_file, random_state, block_size_bytes, ValidDecode, primer_registry,
                   fsVars, runVars, countVars, crcVars, unitVars>>

\* encode (lines 178-197): encode_block with block index 0, offset 0 and the
\* configured block size, into a CSV file with a plain name.
Encode ==
    /\ pc = "idle"
    /\ encodes_left > 0
    /\ encodes_left' = encodes_left - 1
    /\ \E res \in {encode_block(in_file, primer_registry, Pool, 0, 0, block_size_bytes,
                                random_state)} :
           /\ Block' = 0
           /\ csv_files' = IF res.success THEN Put(csv_files, PlainName, res.rows)
                           ELSE csv_files
           /\ damaged' = IF res.success THEN damaged \ {PlainName} ELSE damaged
           /\ random_state' = Rotate(random_state, res.draws)
           /\ ret' = [op |-> "encode", success |-> res.success,
                      value |-> IF res.success THEN 1 ELSE 0]
    /\ UNCHANGED <<in_file, Pool, block_size_bytes, ValidDecode, primer_registry, temp_dir,
                   decoded_file, output_file, runVars, damage_left, runs_left, crcVars, unitVars>>

\* encode_file (lines 199-261) under a distribution strategy.
EncodeFile(policy) ==
    /\ pc = "idle"
    /\ encodes_left > 0
    /\ encodes_left' = encodes_left - 1
    /\ \E res \in {encode_file(in_file, csv_files, primer_registry, Pool, Block,
                               block_size_bytes, policy, random_state)} :
           /\ csv_files' = res.csv
           /\ damaged' = damaged \ DOMAIN res.block_distribution
           /\ random_state' = res.rnd
           /\ Pool' = res.Pool
           /\ Block' = res.Block
           /\ ret' = [op |-> "encode_file", success |-> TRUE,
                      value |-> [policy |-> policy, block_size_bytes |-> block_size_bytes,
                                 block_distribution |-> res.block_distribution]]
    /\ UNCHANGED <<in_file, block_size_bytes, ValidDecode, primer_registry, temp_dir,
                   decoded_file, output_file, runVars, damage_left, runs_left, crcVars, unitVars>>

\* decode (lines 263-328) of an existing CSV file into the caller's out_file.
Decode(name) ==
    /\ pc = "idle"
    /\ name \in DOMAIN csv_files
    /\ \E res \in {decode(csv_files[name], primer_registry, Pool, Block, decoded_file,
                          block_size_bytes)} :
           /\ decoded_file' = res.output
           /\ ValidDecode' = res.ValidDecode
           /\ block_size_bytes' = res.block_size_bytes
           /\ ret' = [op |-> "decode", success |-> res.success,
                      value |-> [file |-> name, block_info |-> res.block_info]]
    /\ UNCHANGED <<in_file, random_state, Pool, Block, primer_registry, csv_files, damaged,
                   temp_dir, output_file, runVars, countVars, crcVars, unitVars>>

(***************************************************************************)
(* Damage to a stored CSV file between encoding and decoding: one symbol   *)
(* of one oligo is read as a symbol of the other bit class.                *)
(***************************************************************************)
FlipBase(base) ==
    CASE base = "A" -> "G" [] base = "G" -> "A" [] base = "C" -> "T" [] base = "T" -> "C"

\* The position in a framed oligo of the first payload symbol, and of the
\* address symbol that carries the bit of value 2.
DamagePosition(kind) ==
    IF kind = "payload" THEN PRIMER_LEN + ADDRESS_BITS + 1
    ELSE PRIMER_LEN + ADDRESS_BITS - 1

DamageKinds == {"payload", "address"}

Corrupt(name, i, kind) ==
    /\ pc = "idle"
    /\ damage_left > 0
    /\ name \in DOMAIN csv_files
    /\ i \in 1..Len(csv_files[name])
    /\ Len(csv_files[name][i].oligo) >= DamagePosition(kind)
    /\ damage_left' = damage_left - 1
    /\ csv_files' = [csv_files EXCEPT ![name][i].oligo[DamagePosition(kind)] = FlipBase(@)]
    /\ damaged' = damaged \cup {name}
    /\ ret' = [op |-> "corrupt", success |-> TRUE, value |-> <<name, i, kind>>]
    /\ UNCHANGED <<in_file, random_state, devVars, temp_dir, decoded_file, output_file,
                   runVars, encodes_left, runs_left, crcVars, unitVars>>

(***************************************************************************)
(* reconstruct_file (lines 330-420): the call, one step for each file of   *)
(* the list, and the completeness check with the final write.              *)
(***************************************************************************)
\* The lists of distinct existing files of at most MaxListLen entries.
RECURSIVE ListsOf(_, _)
ListsOf(names, n) ==
    IF n = 0 THEN {<<>>}
    ELSE The({ shorter \cup {Append(l, x) : l \in shorter, x \in names} :
               shorter \in {ListsOf(names, n - 1)} })

NoRepeat(l) == \A i, j \in 1..Len(l) : i # j => l[i] # l[j]

FileLists == {l \in ListsOf(DOMAIN csv_files, MaxListLen) : NoRepeat(l)}

\* A call that opens the output file for writing before it decodes.
ReconstructStartOpens(list) ==
    /\ pc = "idle"
    /\ runs_left > 0
    /\ runs_left' = runs_left - 1
    /\ pc' = "reconstruct"
    /\ block_files' = list
    /\ run_files' = list
    /\ blocks_by_index' = EmptyMap
    /\ decoded_copies' = <<>>
    /\ file_info' = EmptyFileInfo
    /\ output_file' = <<>>
    /\ ret' = [op |-> "reconstruct_file", success |-> FALSE, value |-> EmptyFileInfo]
    /\ UNCHANGED <<in_file, random_state, devVars, csv_files, damaged, temp_dir,
                   decoded_file, failed_runs, encodes_left, damage_left, crcVars, unitVars>>

\* Lines 341-347.
ReconstructStart(list) ==
    /\ pc = "idle"
    /\ runs_left > 0
    /\ runs_left' = runs_left - 1
    /\ pc' = "reconstruct"
    /\ block_files' = list
    /\ run_files' = list
    /\ blocks_by_index' = EmptyMap
    /\ decoded_copies' = <<>>
    /\ file_info' = EmptyFileInfo
    /\ ret' = [op |-> "reconstruct_file", success |-> FALSE, value |-> EmptyFileInfo]
    /\ UNCHANGED <<in_file, random_state, devVars, fsVars, failed_runs, encodes_left,
                   damage_left, crcVars, unitVars>>

\* Lines 379-395: whether the newly decoded copy takes the place for its index.
KeepsNew(kept, block_idx, block_info) ==
    IF block_idx \in DOMAIN kept
    THEN block_info.crc_stats.valid > kept[block_idx].info.crc_stats.valid
    ELSE TRUE

\* The temporary file of a block index before its next copy is decoded.
TempBefore(block_idx) ==
    IF block_idx \in DOMAIN temp_dir THEN temp_dir[block_idx] ELSE NoFile

\* Lines 373-395: what a decoded copy leaves behind.
ReconstructKeep(res, keeps, csv_file, pool_idx, block_idx) ==
    /\ ValidDecode' = res.ValidDecode
    /\ block_size_bytes' = res.block_size_bytes
    /\ temp_dir' = IF res.output = NoFile THEN temp_dir
                   ELSE Put(temp_dir, block_idx, res.output)
    /\ file_info' = IF res.success
                    THEN [file_info EXCEPT !.pools_used = @ \cup {pool_idx}]
                    ELSE file_info
    /\ blocks_by_index' = IF keeps
                          THEN Put(blocks_by_index, block_idx,
                                   [file |-> block_idx, info |-> res.block_info])
                          ELSE blocks_by_index
    /\ decoded_copies' = IF res.success
                         THEN Append(decoded_copies,
                                     [file |-> csv_file, index |-> block_idx,
                                      valid |-> res.block_info.crc_stats.valid,
                                      info |-> res.block_info, bytes |-> res.output])
                         ELSE decoded_copies

\* One iteration of the loop of lines 350-395 on the file (pool_idx, block_idx).
ReconstructFile(csv_file, pool_idx, block_idx) ==
    /\ Pool' = pool_idx
    /\ Block' = block_idx
    /\ \E res \in {decode(csv_files[csv_file], primer_registry, pool_idx, block_idx,
                          TempBefore(block_idx), block_size_bytes)} :
           \E keeps \in {res.success
                          /\ KeepsNew(blocks_by_index, block_idx, res.block_info)} :
               ReconstructKeep(res, keeps, csv_file, pool_idx, block_idx)

ReconstructStep ==
    /\ pc = "reconstruct"
    /\ block_files # <<>>
    /\ \E csv_file \in {Head(block_files)} :
           ReconstructFile(csv_file, csv_file[1], csv_file[2])
    /\ block_files' = Tail(block_files)
    /\ UNCHANGED <<in_file, random_state, primer_registry, csv_files, damaged, decoded_file,
                   output_file, pc, run_files, failed_runs, countVars, crcVars, unitVars, ret>>

MaxOf(S) == CHOOSE m \in S : \A o \in S : o <= m

\* Line 401.
max_block_idx == IF DOMAIN blocks_by_index = {} THEN -1 ELSE MaxOf(DOMAIN blocks_by_index)

\* A completeness check against every block index that was stored.
HaveEveryStoredBlock ==
    /\ max_block_idx >= 0
    /\ \A i \in 0..max_block_idx : i \in DOMAIN blocks_by_index
    /\ \A name \in DOMAIN csv_files : name[2] \in DOMAIN blocks_by_index

\* Line 402.
HaveAllBlocks ==
    max_block_idx >= 0 /\ \A i \in 0..max_block_idx : i \in DOMAIN blocks_by_index

\* A final write that takes the decoded copies in the order of the list.
CombinedArrival ==
    Flatten([k \in 1..Len(decoded_copies) |-> decoded_copies[k].bytes])

\* Lines 404-410: the bytes of the temporary files of the kept blocks, in
\* index order.
CombinedBlocks ==
    Flatten([k \in 1..(max_block_idx + 1) |-> temp_dir[blocks_by_index[k - 1].file]])

\* The indices of 0..max_block_idx without a kept block (lines 402, 418-419).
MissingIndices == {i \in 0..max_block_idx : i \notin DOMAIN blocks_by_index}

\* Lines 403-416.
ReconstructWrite(counted, data) ==
    /\ output_file' = data
    /\ file_info' = [counted EXCEPT !.total_bytes = Len(data)]
    /\ ret' = [op |-> "reconstruct_file", success |-> TRUE, value |-> file_info']
    /\ failed_runs' = failed_runs

\* Lines 417-420.
ReconstructFail(counted) ==
    /\ output_file' = output_file
    /\ file_info' = counted
    /\ ret' = [op |-> "reconstruct_file", success |-> FALSE, value |-> counted]
    /\ failed_runs' = failed_runs \cup {[value |-> counted, missing |-> MissingIndices]}

\* A completeness check that comes too late: the output is opened and the
\* kept blocks are written before the indices are checked.
ReconstructFinishEager ==
    /\ pc = "reconstruct"
    /\ block_files = <<>>
    /\ pc' = "idle"
    /\ \E counted \in {[file_info EXCEPT
                           !.total_blocks = Cardinality(DOMAIN blocks_by_index)]} :
       \E data \in {Flatten([k \in 1..(max_block_idx + 1) |->
                                IF k - 1 \in DOMAIN blocks_by_index
                                THEN temp_dir[blocks_by_index[k - 1].file] ELSE <<>>])} :
           IF HaveAllBlocks THEN ReconstructWrite(counted, data)
           ELSE /\ output_file' = data
                /\ file_info' = counted
                /\ ret' = [op |-> "reconstruct_file", success |-> FALSE, value |-> counted]
                /\ failed_runs' = failed_runs
    /\ UNCHANGED <<in_file, random_state, devVars, csv_files, damaged, temp_dir,
                   decoded_file, block_files, blocks_by_index, run_files, decoded_copies,
                   countVars, crcVars, unitVars>>

\* Lines 397-420.
ReconstructFinish ==
    /\ pc = "reconstruct"
    /\ block_files = <<>>
    /\ pc' = "idle"
    /\ \E counted \in {[file_info EXCEPT
                           !.total_blocks = Cardinality(DOMAIN blocks_by_index)]} :
           IF HaveAllBlocks
           THEN \E data \in {CombinedBlocks} : ReconstructWrite(counted, data)
           ELSE ReconstructFail(counted)
    /\ UNCHANGED <<in_file, random_state, devVars, csv_files, damaged, temp_dir,
                   decoded_file, block_files, blocks_by_index, run_files, decoded_copies,
                   countVars, crcVars, unitVars>>

(***************************************************************************)
(* The specifications.                                                     *)
(***************************************************************************)
\* A file stored with encode_file, damaged in storage, and reconstructed.
Next ==
    \/ \E s \in BlockSizes : SetBlockSize(s)
    \/ \E key \in DOMAIN TestPrimers : RegisterPrimers(key)
    \/ \E policy \in Policies : EncodeFile(policy)
    \/ \E name \in DOMAIN csv_files : \E i \in 1..Len(csv_files[name]) :
           \E kind \in DamageKinds : Corrupt(name, i, kind)
    \/ \E list \in FileLists : ReconstructStart(list)
    \/ ReconstructStep
    \/ ReconstructFinish

Spec == Init /\ [][Next]_vars

\* A file stored with encode and read back with decode.
NextSingle ==
    \/ \E s \in BlockSizes : SetBlockSize(s)
    \/ \E key \in DOMAIN TestPrimers : RegisterPrimers(key)
    \/ \E key \in DOMAIN TestPrimers : SetPoolBlock(key)
    \/ Encode
    \/ \E name \in DOMAIN csv_files : Decode(name)

SpecSingle == Init /\ [][NextSingle]_vars

\* The codec without the device.
InitCodec ==
    /\ in_file \in CodecFiles
    /\ random_state \in RandomSources
    /\ encodes_left = 1
    /\ damage_left = 0
    /\ runs_left = 0
    /\ InitDevice
    /\ InitNoCrc
    /\ InitNoUnit

NextCodec ==
    \/ \E s \in CodecBlockSizes : CodecEncode(s)
    \/ CodecDecode

SpecCodec == InitCodec /\ [][NextCodec]_vars

\* The checksum of a payload, alone.
InitCrc ==
    /\ in_file = <<>>
    /\ random_state = DeviceSeed
    /\ encodes_left = 0
    /\ damage_left = 0
    /\ runs_left = 0
    /\ InitDevice
    /\ payload \in Payloads
    /\ checksum = <<>>
    /\ received = <<>>
    /\ verified = <<>>
    /\ InitNoUnit

NextCrc ==
    \/ CrcCalculate
    \/ \E i \in 0..PAYLOAD_BITS : CrcReceive(i)
    \/ CrcVerify

SpecCrc == InitCrc /\ [][NextCrc]_vars

\* Several reconstructions of the undamaged files of one encode_file call.
InitReport ==
    /\ in_file = FileOf("mixed", MaxFileLen)
    /\ random_state = DeviceSeed
    /\ encodes_left = 1
    /\ damage_left = 0
    /\ runs_left = 2
    /\ InitDevice
    /\ InitNoCrc
    /\ InitNoUnit

NextReport ==
    \/ \E s \in ReportBlockSizes : SetBlockSize(s)
    \/ \E policy \in Policies : EncodeFile(policy)
    \/ \E list \in FileLists : ReconstructStart(list)
    \/ ReconstructStep
    \/ ReconstructFinish

SpecReport == InitReport /\ [][NextReport]_vars


(***************************************************************************)
(* Functions of the codec called on their own.  call holds the function    *)
(* and its arguments, ret the value it returned.                           *)
(***************************************************************************)
\* The longest repeating unit of a primer given to a function called alone.
MaxPatternLen == 1

\* s repeated up to n symbols.
Cycle(s, n) == [i \in 1..n |-> s[((i - 1) % Len(s)) + 1]]

PrimerPatterns == UNION {[1..k -> Bases] : k \in 1..MaxPatternLen}

\* 22-symbol primers.
UnitPrimers == {Cycle(q, PRIMER_LEN) : q \in PrimerPatterns}

FieldPatterns == {<<"A">>, <<"C">>, <<"G">>, <<"T">>, <<"A", "C", "G", "T">>}

\* Encoded fields of n symbols: among them the fields made of the symbol a
\* primer is made of, so that the primer is found twice at an end of the oligo.
Regions(n) == {Cycle(q, n) : q \in FieldPatterns}

\* extract_oligo_parts applied to the oligo bits_to_dna_with_crc32 frames from
\* the three encoded fields (encoder lines 88-98).
ExtractCall(a, p, c, F, R) ==
    /\ call = NoCall
    /\ call' = [fn |-> "extract_oligo_parts", args |-> <<a, p, c, F, R>>]
    /\ ret' = [op |-> "extract_oligo_parts", success |-> TRUE,
               value |-> extract_oligo_parts(FrameOligo(a \o p \o c, F, R), F, R)]
    /\ UNCHANGED <<in_file, random_state, devVars, fsVars, runVars, countVars, crcVars, loop, passVars>>

\* The longest bit string given to encode_bits_to_dna called alone.
MaxBitLen == 4

BitStrings == UNION {[1..k -> {0, 1}] : k \in 0..MaxBitLen}

\* The windows encode_bits_to_dna keeps: at most HOMOPOLYMER_LIMIT bases.
Windows == UNION {[1..k -> Bases] : k \in 0..HOMOPOLYMER_LIMIT}

\* The outcomes of the random.choice calls of one call, one per bit.
ChoicesFor(bits) == [1..Len(bits) -> {1, 2}]

\* encode_bits_to_dna(bits, last_bases) with the draws rnd.
EncodeBitsCall(bits, last_bases, rnd) ==
    /\ call = NoCall
    /\ call' = [fn |-> "encode_bits_to_dna", args |-> <<bits, last_bases, rnd>>]
    /\ ret' = [op |-> "encode_bits_to_dna", success |-> TRUE,
               value |-> encode_bits_to_dna(bits, last_bases, rnd, 0)]
    /\ UNCHANGED <<in_file, random_state, devVars, fsVars, runVars, countVars, crcVars, loop, passVars>>

InitUnit ==
    /\ in_file = <<>>
    /\ random_state = DeviceSeed
    /\ encodes_left = 0
    /\ damage_left = 0
    /\ runs_left = 0
    /\ InitDevice
    /\ InitNoCrc
    /\ InitNoUnit

\* One function is called, once.
NextUnit ==
    \/ /\ call = NoCall
       /\ \E a \in Regions(ADDRESS_BITS), p \in Regions(PAYLOAD_BITS), c \in Regions(CRC_BITS) :
              \E F \in UnitPrimers, R \in UnitPrimers : ExtractCall(a, p, c, F, R)
    \/ /\ call = NoCall
       /\ \E bits \in BitStrings, last_bases \in Windows :
              \E rnd \in ChoicesFor(bits) : EncodeBitsCall(bits, last_bases, rnd)

SpecUnit == InitUnit /\ [][NextUnit]_vars

(***************************************************************************)
(* The loop of bits_to_dna_with_crc32 (encoder lines 58-102), one          *)
(* iteration at a time.  The bit string is held as its length and the unit *)
(* it repeats, so that a string long enough for the default ceiling fits   *)
(* in a state.                                                             *)
(***************************************************************************)
\* The most segments of a bit string segmented from its start.
MaxSegments == 3

BitUnits == {<<0>>, <<1>>, <<1, 0, 1, 1, 0>>}

\* Lengths of whole segments and of segments followed by one byte.
ShortLens == {k * PAYLOAD_BITS + d : k \in 0..(MaxSegments - 1), d \in {0, 8}} \cup {MaxSegments * PAYLOAD_BITS}

Ceilings == (1..MaxSegments) \cup {DEFAULT_MAX_ADDRESS}

\* bits[from:to] of the bit string described by stream.
StreamSlice(stream, from, to) ==
    [k \in 1..(Min(to, stream.len) - from) |-> stream.unit[((from + k - 1) % Len(stream.unit)) + 1]]

StreamBits(stream) == StreamSlice(stream, 0, stream.len)

\* Lines 58-61: the call, up to the first test of the loop.
SegmentsEnter(stream, max_address, first) ==
    /\ loop.pc = "none"
    /\ call.fn = "none"
    /\ call' = [fn |-> "bits_to_dna_with_crc32", args |-> <<stream, max_address>>]
    /\ loop' = [pc |-> "loop", bits |-> stream,
                forward_primer |-> DEFAULT_FORWARD_PRIMER,
                reverse_primer |-> DEFAULT_REVERSE_PRIMER,
                segment_length |-> bytes_per_oligo, max_address |-> max_address,
                first |-> first, address |-> first,
                i |-> (first - 1) * bytes_per_oligo * 8,
                oligos_with_details |-> <<>>]
    /\ UNCHANGED <<in_file, random_state, devVars, fsVars, runVars, countVars, crcVars,
                   passVars, ret>>

\* bits_to_dna_with_crc32(bits, forward, reverse, 12, max_address) is called.
SegmentsCall(stream, max_address) == SegmentsEnter(stream, max_address, 1)

\* The same call with the default ceiling on a bit string of more than
\* DEFAULT_MAX_ADDRESS - 2 segments, taken up after that many iterations: the
\* address is DEFAULT_MAX_ADDRESS - 1, and the records appended so far (which
\* no later iteration reads) are left out of oligos_with_details.
SegmentsNearCeiling(stream) ==
    /\ stream.len > (DEFAULT_MAX_ADDRESS - 2) * PAYLOAD_BITS
    /\ SegmentsEnter(stream, DEFAULT_MAX_ADDRESS, DEFAULT_MAX_ADDRESS - 1)

\* Lines 68-100: one iteration that passes the test of line 69.
SegmentsStep ==
    /\ loop.pc = "loop"
    /\ loop.i < loop.bits.len
    /\ loop.address <= loop.max_address
    /\ \E seg \in { EncodeFields(FormatBits(loop.address, ADDRESS_BITS), data_bits,
                                 calculate_crc32_checksum(data_bits), loop.forward_primer,
                                 loop.reverse_primer, <<>>, random_state,
                                 (loop.address - 1) * DrawsPerOligo) :
                    data_bits \in {LJust(StreamSlice(loop.bits, loop.i,
                                                     loop.i + loop.segment_length * 8),
                                         PAYLOAD_BITS)} } :
           loop' = [loop EXCEPT !.oligos_with_details = Append(@, seg),
                                !.address = @ + 1,
                                !.i = @ + loop.segment_length * 8]
    /\ UNCHANGED <<in_file, random_state, devVars, fsVars, runVars, countVars, crcVars, call, passVars, ret>>

\* Lines 68-70 and 102: the range is exhausted or the break is taken; the list
\* is returned, and nothing else.
SegmentsReturn ==
    /\ loop.pc = "loop"
    /\ loop.i >= loop.bits.len \/ loop.address > loop.max_address
    /\ loop' = [loop EXCEPT !.pc = "returned"]
    /\ ret' = [op |-> "bits_to_dna_with_crc32", success |-> TRUE,
               value |-> loop.oligos_with_details]
    /\ UNCHANGED <<in_file, random_state, devVars, fsVars, runVars, countVars, crcVars, call, passVars>>

NextSegments ==
    \/ \E n \in ShortLens, u \in BitUnits, max_address \in Ceilings :
           SegmentsCall([len |-> n, unit |-> u], max_address)
    \/ \E n \in ShortLens \ {0}, u \in BitUnits :
           SegmentsNearCeiling([len |-> (DEFAULT_MAX_ADDRESS - 2) * PAYLOAD_BITS + n, unit |-> u])
    \/ SegmentsStep
    \/ SegmentsReturn

SpecSegments == InitUnit /\ [][NextSegments]_vars

(***************************************************************************)
(* Encode passes with primers of any length: encode_file_to_dna called     *)
(* with primer arguments, and encode on a device whose registry was filled *)
(* by one register_primers call, which stores what it is given (lines      *)
(* 78-89).  The function is called by a caller that has no device.         *)
(***************************************************************************)
PrimerLens == {0, PRIMER_LEN - 1, PRIMER_LEN, PRIMER_LEN + 1}

AnyPrimers == {Cycle(q, n) : q \in {<<"A">>, <<"C", "G", "T">>}, n \in PrimerLens}

FlankKeys == {<<0, 0>>, <<1, 0>>}

\* encode_file_to_dna(in, csv, forward_primer, reverse_primer, block_size_bytes)
CodecEncodeWith(forward_primer, reverse_primer, size_bytes) ==
    /\ pc = "idle"
    /\ primer_registry = EmptyMap
    /\ encodes_left > 0
    /\ encodes_left' = encodes_left - 1
    /\ call' = [fn |-> "encode_file_to_dna",
                args |-> <<forward_primer, reverse_primer, size_bytes, random_state>>]
    /\ \E res \in {encode_file_to_dna(in_file, forward_primer, reverse_primer, size_bytes,
                                      random_state)} :
           /\ csv_files' = IF res.raised THEN csv_files
                           ELSE Put(csv_files, PlainName, res.rows)
           /\ random_state' = Rotate(random_state, res.num_oligos * DrawsPerOligo)
           /\ ret' = [op |-> "encode_file_to_dna", success |-> ~res.raised,
                      value |-> <<res.num_oligos, res.total_data_size, res.num_blocks>>]
    /\ UNCHANGED <<in_file, devVars, damaged, temp_dir, decoded_file, output_file, runVars,
                   damage_left, runs_left, crcVars, loop, passVars>>

\* register_primers(pool, block, forward_primer, reverse_primer) (lines 78-89)
RegisterAnyPrimers(key, forward_primer, reverse_primer) ==
    /\ pc = "idle"
    /\ encodes_left > 0
    /\ primer_registry = EmptyMap
    /\ primer_registry' = Put(primer_registry, key, <<forward_primer, reverse_primer>>)
    /\ ret' = [op |-> "register_primers", success |-> TRUE, value |-> key]
    /\ UNCHANGED <<in_file, random_state, Pool, Block, block_size_bytes, ValidDecode,
                   fsVars, runVars, countVars, crcVars, unitVars>>

InitFlank ==
    /\ in_file \in {FileOf("mixed", n) : n \in {1, MaxFileLen}}
    /\ random_state = DeviceSeed
    /\ encodes_left = 1
    /\ damage_left = 0
    /\ runs_left = 0
    /\ InitDevice
    /\ InitNoCrc
    /\ InitNoUnit

NextFlank ==
    \/ \E f \in AnyPrimers \cup {NonePrimer}, r \in AnyPrimers \cup {NonePrimer} :
           CodecEncodeWith(f, r, DEFAULT_BLOCK_SIZE)
    \/ \E key \in FlankKeys, f \in AnyPrimers, r \in AnyPrimers : RegisterAnyPrimers(key, f, r)
    \/ \E key \in FlankKeys : SetPoolBlock(key)
    \/ Encode

SpecFlank == InitFlank /\ [][NextFlank]_vars

(***************************************************************************)
(* A batch of records of which some were altered between the encode pass   *)
(* and decode_oligos_from_csv: a symbol read as another, a read cut short, *)
(* a symbol outside the alphabet.                                          *)
(***************************************************************************)
\* A symbol that is not a key of BASE_TO_BIT.
ForeignBase == "N"

MangleKinds ==
    {"payload", "address", "cut_core", "cut_checksum", "foreign_address", "foreign_payload",
     "foreign_checksum", "foreign_reverse", "address_other", "no_checksum", "payload_cut"}

\* The oligo with the symbol at position k replaced.
WithSymbol(oligo, k, base) == [oligo EXCEPT ![k] = base]

\* The framed oligo after the alteration: the first payload symbol or the
\* address symbol of value 2 read as a symbol of the other class; the read cut
\* one symbol before the end of the payload, or of the checksum; a foreign
\* symbol in the address, the payload, the checksum or the reverse primer;
\* the two lowest address symbols read wrongly, which turns address 1 into 2
\* and 2 into 1; the read cut right after the payload; the first payload
\* symbol read wrongly in a read cut inside the checksum.
Mangled(oligo, kind) ==
    CASE kind = "payload" ->
             WithSymbol(oligo, DamagePosition("payload"), FlipBase(oligo[DamagePosition("payload")]))
      [] kind = "address" ->
             WithSymbol(oligo, DamagePosition("address"), FlipBase(oligo[DamagePosition("address")]))
      [] kind = "cut_core" -> SubSeq(oligo, 1, PRIMER_LEN + ADDRESS_BITS + PAYLOAD_BITS - 1)
      [] kind = "cut_checksum" -> SubSeq(oligo, 1, PRIMER_LEN + DrawsPerOligo - 1)
      [] kind = "foreign_address" -> WithSymbol(oligo, PRIMER_LEN + 1, ForeignBase)
      [] kind = "foreign_payload" -> WithSymbol(oligo, PRIMER_LEN + ADDRESS_BITS + PAYLOAD_BITS, ForeignBase)
      [] kind = "foreign_checksum" -> WithSymbol(oligo, PRIMER_LEN + DrawsPerOligo, ForeignBase)
      [] kind = "foreign_reverse" -> WithSymbol(oligo, Len(oligo), ForeignBase)
      [] kind = "address_other" ->
             WithSymbol(WithSymbol(oligo, PRIMER_LEN + ADDRESS_BITS - 1,
                                   FlipBase(oligo[PRIMER_LEN + ADDRESS_BITS - 1])),
                        PRIMER_LEN + ADDRESS_BITS, FlipBase(oligo[PRIMER_LEN + ADDRESS_BITS]))
      [] kind = "no_checksum" -> SubSeq(oligo, 1, PRIMER_LEN + ADDRESS_BITS + PAYLOAD_BITS)
      [] kind = "payload_cut" ->
             SubSeq(WithSymbol(oligo, DamagePosition("payload"),
                               FlipBase(oligo[DamagePosition("payload")])),
                    1, PRIMER_LEN + DrawsPerOligo - 1)

\* Record i of the CSV file is altered.
Mangle(i, kind) ==
    /\ pc = "idle"
    /\ damage_left > 0
    /\ PlainName \in DOMAIN csv_files
    /\ ret.op \in {"encode_file_to_dna", "mangle"}
    /\ i \in 1..Len(csv_files[PlainName])
    /\ Len(csv_files[PlainName][i].oligo) = PRIMER_LEN + DrawsPerOligo + PRIMER_LEN
    /\ damage_left' = damage_left - 1
    /\ csv_files' = [csv_files EXCEPT ![PlainName][i].oligo = Mangled(@, kind)]
    /\ damaged' = damaged \cup {PlainName}
    /\ ret' = [op |-> "mangle", success |-> TRUE, value |-> <<i, kind>>]
    /\ UNCHANGED <<in_file, random_state, devVars, temp_dir, decoded_file, output_file,
                   runVars, encodes_left, runs_left, crcVars, unitVars>>

\* decode_oligos_from_fastq on a FASTQ file that holds the reads of the
\* records of the CSV file, in their order.
CodecDecodeFastq ==
    /\ pc = "idle"
    /\ PlainName \in DOMAIN csv_files
    /\ ret.op \in {"encode_file_to_dna", "mangle"}
    /\ \E res \in {decode_oligos_from_fastq(
                        [i \in 1..Len(csv_files[PlainName]) |-> csv_files[PlainName][i].oligo],
                        DEFAULT_FORWARD_PRIMER, DEFAULT_REVERSE_PRIMER, decoded_file)} :
           /\ decoded_file' = res.output
           /\ ret' = [op |-> "decode_oligos_from_fastq", success |-> TRUE,
                      value |-> <<res.decoded_blocks, res.block_info>>]
    /\ UNCHANGED <<in_file, random_state, devVars, csv_files, damaged, temp_dir, output_file,
                   runVars, countVars, crcVars, unitVars>>

\* The positions of the records of the CSV file.
BatchRows == IF PlainName \in DOMAIN csv_files THEN 1..Len(csv_files[PlainName]) ELSE {}

InitBatch ==
    /\ in_file \in {FileOf(kind, MaxFileLen) : kind \in FileKinds}
    /\ random_state = DeviceSeed
    /\ encodes_left = 1
    /\ damage_left = MaxCorrupt
    /\ runs_left = 0
    /\ InitDevice
    /\ InitNoCrc
    /\ InitNoUnit

NextBatch ==
    \/ \E s \in CodecBlockSizes : CodecEncode(s)
    \/ \E i \in BatchRows, kind \in MangleKinds : Mangle(i, kind)
    \/ CodecDecode
    \/ CodecDecodeFastq

SpecBatch == InitBatch /\ [][NextBatch]_vars

(***************************************************************************)
(* ClassifySequence on a device whose registry was filled by               *)
(* register_primers, applied to a core framed by a pair of primers.        *)
(***************************************************************************)
\* Cores: the three encoded fields of a record.
Cores == Regions(DrawsPerOligo)

\* Forward primers of 22 symbols with any reverse primer.
ForwardPrimers == {f \in AnyPrimers : Len(f) = PRIMER_LEN}

\* The pairs a sequence is framed with: every pair of the tests, the pairs
\* with any reverse primer, no primer at all, and one default primer only.
FramePairs ==
    {TestPrimers[k] : k \in DOMAIN TestPrimers}
        \cup (ForwardPrimers \X AnyPrimers)
        \cup {<<<<>>, <<>>>>, <<<<>>, DEFAULT_REVERSE_PRIMER>>, <<DEFAULT_FORWARD_PRIMER, <<>>>>}

\* ClassifySequence(forward + core + reverse) (lines 454-496).
ClassifyCall(core, forward_primer, reverse_primer) ==
    /\ call = NoCall
    /\ call' = [fn |-> "ClassifySequence", args |-> <<core, forward_primer, reverse_primer>>]
    /\ \E res \in {ClassifySequence(primer_registry,
                                    FrameOligo(core, forward_primer, reverse_primer))} :
           /\ Pool' = IF res.cPool = -1 THEN Pool ELSE res.cPool
           /\ Block' = IF res.cBlock = -1 THEN Block ELSE res.cBlock
           /\ ret' = [op |-> "ClassifySequence", success |-> TRUE,
                      value |-> <<res.cPool, res.cBlock, res.oSeq>>]
    /\ UNCHANGED <<in_file, random_state, block_size_bytes, ValidDecode, primer_registry,
                   fsVars, runVars, countVars, crcVars, loop, passVars>>

InitClassify ==
    /\ in_file = <<>>
    /\ random_state = DeviceSeed
    /\ encodes_left = 1
    /\ damage_left = 0
    /\ runs_left = 0
    /\ InitDevice
    /\ InitNoCrc
    /\ InitNoUnit

NextClassify ==
    \/ /\ call = NoCall
       /\ \E key \in DOMAIN TestPrimers : RegisterPrimers(key)
    \/ /\ call = NoCall
       /\ \E key \in FlankKeys, f \in ForwardPrimers, r \in AnyPrimers :
              RegisterAnyPrimers(key, f, r)
    \/ /\ call = NoCall
       /\ \E core \in Cores, pair \in FramePairs : ClassifyCall(core, pair[1], pair[2])

SpecClassify == InitClassify /\ [][NextClassify]_vars

(***************************************************************************)
(* A device that stores a file, reads stored blocks back with decode or    *)
(* reconstruct_file, and stores the file again: the second encode_file     *)
(* runs with the configuration the reads have left.                        *)
(***************************************************************************)
InitReuse ==
    /\ in_file = FileOf("mixed", MaxFileLen)
    /\ random_state = DeviceSeed
    /\ encodes_left = 2
    /\ damage_left = 0
    /\ runs_left = 1
    /\ InitDevice
    /\ InitNoCrc
    /\ InitNoUnit

\* The policies of the caller: one pool for every block, and a second copy of
\* block 1.
ReusePolicies == {"simple", "redundant"}

\* The reads come between the two encode_file calls.
NextReuse ==
    \/ \E s \in ReportBlockSizes : SetBlockSize(s)
    \/ RegisterPrimers(<<1, 0>>)
    \/ \E policy \in ReusePolicies : EncodeFile(policy)
    \/ encodes_left = 1 /\ \E name \in DOMAIN csv_files : Decode(name)
    \/ encodes_left = 1 /\ \E list \in FileLists : ReconstructStart(list)
    \/ ReconstructStep
    \/ ReconstructFinish

SpecReuse == InitReuse /\ [][NextReuse]_vars

(***************************************************************************)
(* Arrival order.  Either the codec is called directly and the records of  *)
(* the CSV file are reordered between two decode passes, or the file is    *)
(* stored with encode_file and reconstruct_file gets the block files in    *)
(* any order.                                                              *)
(***************************************************************************)
\* The orders of n records.
Orders(n) == {p \in [1..n -> 1..n] : \A i, j \in 1..n : p[i] = p[j] => i = j}

\* The records of the CSV file are put in another order after a decode pass;
\* what that pass returned is kept for the comparison.
Shuffle(order) ==
    /\ pc = "idle"
    /\ PlainName \in DOMAIN csv_files
    /\ ret.op = "decode_oligos_from_csv"
    /\ csv_files' = [csv_files EXCEPT
                        ![PlainName] = [i \in 1..Len(@) |-> @[order[i]]]]
    /\ csv_files' # csv_files
    /\ ret' = [op |-> "shuffle", success |-> TRUE, value |-> ret.value]
    /\ UNCHANGED <<in_file, random_state, devVars, damaged, temp_dir, decoded_file,
                   output_file, runVars, countVars, crcVars, unitVars>>

OrderBlockSizes == ReportBlockSizes \cup {DEFAULT_BLOCK_SIZE}

InitOrder ==
    /\ in_file = FileOf("mixed", MaxFileLen)
    /\ random_state = DeviceSeed
    /\ encodes_left = 1
    /\ damage_left = 0
    /\ runs_left = 1
    /\ InitDevice
    /\ InitNoCrc
    /\ InitNoUnit

NextOrder ==
    \/ DOMAIN csv_files = {} /\ block_size_bytes = DEFAULT_BLOCK_SIZE
           /\ \E s \in OrderBlockSizes : CodecEncode(s)
    \/ CodecDecode
    \/ ret.op = "decode_oligos_from_csv"
           /\ \E order \in Orders(Len(csv_files[PlainName])) : Shuffle(order)
    \/ \E s \in ReportBlockSizes : SetBlockSize(s)
    \/ PlainName \notin DOMAIN csv_files /\ \E policy \in Policies : EncodeFile(policy)
    \/ PlainName \notin DOMAIN csv_files /\ \E list \in FileLists : ReconstructStart(list)
    \/ ReconstructStep
    \/ ReconstructFinish

SpecOrder == InitOrder /\ [][NextOrder]_vars

(***************************************************************************)
(* A device that is configured and stores a file with encode_file.         *)
(***************************************************************************)
InitStore ==
    /\ in_file \in Files
    /\ random_state = DeviceSeed
    /\ encodes_left = 1
    /\ damage_left = 0
    /\ runs_left = 0
    /\ InitDevice
    /\ InitNoCrc
    /\ InitNoUnit

NextStore ==
    \/ \E s \in OrderBlockSizes : SetBlockSize(s)
    \/ \E key \in DOMAIN TestPrimers : RegisterPrimers(key)
    \/ \E policy \in Policies : EncodeFile(policy)

SpecStore == InitStore /\ [][NextStore]_vars

(***************************************************************************)
(* One reconstruct_file call that runs to its end: the loop over the list  *)
(* and the final check are the sequential code of one call, which goes on  *)
(* as long as it has a step to take.                                       *)
(***************************************************************************)
NextRun ==
    \/ \E s \in ReportBlockSizes : SetBlockSize(s)
    \/ \E policy \in Policies : EncodeFile(policy)
    \/ \E list \in FileLists : ReconstructStart(list)
    \/ ReconstructStep
    \/ ReconstructFinish

\* The two kinds of step of a call that has begun: the loop goes to the next
\* file of the list, and the call returns once the list is empty.
LoopAdvances ==
    pc = "reconstruct" /\ block_files # <<>> /\ block_files' = Tail(block_files)

CallReturns == pc = "reconstruct" /\ block_files = <<>> /\ pc' = "idle"

SpecRun ==
    /\ InitOrder
    /\ [][NextRun]_vars
    /\ WF_block_files(LoopAdvances)
    /\ WF_pc(CallReturns)

(***************************************************************************)
(* Two encode passes of the loop body of encode_file (lines 238-258) run   *)
(* interleaved on one device.  A pass takes the steps of lines 240 and     *)
(* 136-176 one at a time; Pool, Block, the temporary directory and the     *)
(* random source belong to the device, the rest is local to the pass.      *)
(***************************************************************************)
\* The (pool, block) pairs a pass is started for.
PassJobs == {<<1, 0>>, <<1, 1>>, <<2, 1>>}

\* The number of blocks of the input under the configured block size (line 220).
TotalBlocks == (Len(in_file) + block_size_bytes - 1) \div block_size_bytes

\* Lines 232-247: the locals of the pass for (pool_idx, block_idx).
NewPass(job) ==
    [pool_idx |-> job[1], block_idx |-> job[2],
     start_offset |-> job[2] * block_size_bytes,
     block_length |-> Min(block_size_bytes, Len(in_file) - job[2] * block_size_bytes),
     pc |-> "set_pool", block_data |-> <<>>, primers |-> <<NonePrimer, NonePrimer>>,
     success |-> FALSE, pool |-> 0, block_size |-> 0]

\* Two passes for different pairs are started.
StartPasses(a, b) ==
    /\ pc = "idle"
    /\ passes = <<>>
    /\ encodes_left > 0
    /\ a # b
    /\ a[2] < TotalBlocks /\ b[2] < TotalBlocks
    /\ encodes_left' = encodes_left - 1
    /\ passes' = <<NewPass(a), NewPass(b)>>
    /\ ret' = [op |-> "encode_passes", success |-> TRUE, value |-> [jobs |-> <<a, b>>]]
    /\ UNCHANGED <<in_file, random_state, devVars, fsVars, runVars, damage_left, runs_left,
                   crcVars, call, loop, temp_block_files>>

\* Line 240: self.Pool = pool_idx.
PassSetPool(i) ==
    /\ passes[i].pc = "set_pool"
    /\ Pool' = passes[i].pool_idx
    /\ passes' = [passes EXCEPT ![i].pc = "write_temp"]
    /\ UNCHANGED <<in_file, random_state, Block, block_size_bytes, ValidDecode,
                   primer_registry, fsVars, runVars, countVars, crcVars, call, loop,
                   temp_block_files, ret>>

\* Lines 136-143: the bytes of the block are read from the input and written to
\* temp_block_<block_index>.bin.
PassWriteTemp(i) ==
    /\ passes[i].pc = "write_temp"
    /\ \E block_data \in {Slice(in_file, passes[i].start_offset,
                                passes[i].start_offset + passes[i].block_length)} :
           /\ passes' = [passes EXCEPT ![i].pc = "set_block", ![i].block_data = block_data]
           /\ temp_block_files' = Put(temp_block_files, passes[i].block_idx, block_data)
    /\ UNCHANGED <<in_file, random_state, devVars, fsVars, runVars, countVars, crcVars,
                   call, loop, ret>>

\* Line 146: self.Block = block_index.
PassSetBlock(i) ==
    /\ passes[i].pc = "set_block"
    /\ Block' = passes[i].block_idx
    /\ passes' = [passes EXCEPT ![i].pc = "get_primers"]
    /\ UNCHANGED <<in_file, random_state, Pool, block_size_bytes, ValidDecode,
                   primer_registry, fsVars, runVars, countVars, crcVars, call, loop,
                   temp_block_files, ret>>

\* Line 149: self.get_primers(self.Pool, self.Block).
PassGetPrimers(i) ==
    /\ passes[i].pc = "get_primers"
    /\ passes' = [passes EXCEPT ![i].pc = "encode",
                                ![i].primers = get_primers(primer_registry, Pool, Block)]
    /\ UNCHANGED <<in_file, random_state, devVars, fsVars, runVars, countVars, crcVars,
                   call, loop, temp_block_files, ret>>

\* Lines 152-158 when the temporary file is there: encode_file_to_dna reads it
\* and writes the CSV file of the pass.
PassEncodeTemp(i, enc) ==
    /\ passes' = [passes EXCEPT ![i].pc = "return", ![i].success = ~enc.raised]
    /\ csv_files' = IF enc.raised THEN csv_files
                    ELSE Put(csv_files, <<passes[i].pool_idx, passes[i].block_idx>>, enc.rows)
    /\ random_state' = Rotate(random_state, enc.num_oligos * DrawsPerOligo)

\* Lines 152-158 and 170-172: without the temporary file the call raises and
\* the pass fails.
PassEncode(i) ==
    /\ passes[i].pc = "encode"
    /\ IF passes[i].block_idx \in DOMAIN temp_block_files
       THEN \E enc \in {encode_file_to_dna(temp_block_files[passes[i].block_idx],
                                           passes[i].primers[1], passes[i].primers[2],
                                           passes[i].block_length, random_state)} :
                PassEncodeTemp(i, enc)
       ELSE /\ passes' = [passes EXCEPT ![i].pc = "return", ![i].success = FALSE]
            /\ UNCHANGED <<csv_files, random_state>>
    /\ UNCHANGED <<in_file, devVars, damaged, temp_dir, decoded_file, output_file, runVars,
                   countVars, crcVars, call, loop, temp_block_files, ret>>

\* Lines 163-176: the information returned names self.Pool, and the temporary
\* file is removed if it is there.
PassReturn(i) ==
    /\ passes[i].pc = "return"
    /\ passes' = [passes EXCEPT ![i].pc = "done", ![i].pool = Pool,
                                ![i].block_size = Len(passes[i].block_data)]
    /\ temp_block_files' = [k \in DOMAIN temp_block_files \ {passes[i].block_idx} |->
                               temp_block_files[k]]
    /\ UNCHANGED <<in_file, random_state, devVars, fsVars, runVars, countVars, crcVars,
                   call, loop, ret>>

InitPasses ==
    /\ in_file = FileOf("mixed", MaxFileLen)
    /\ random_state = DeviceSeed
    /\ encodes_left = 1
    /\ damage_left = 0
    /\ runs_left = 0
    /\ InitDevice
    /\ InitNoCrc
    /\ InitNoUnit

\* The device is configured before the passes are started.
NextPasses ==
    \/ passes = <<>> /\ \E s \in ReportBlockSizes : SetBlockSize(s)
    \/ passes = <<>> /\ \E key \in DOMAIN TestPrimers : RegisterPrimers(key)
    \/ passes = <<>> /\ \E a, b \in PassJobs : StartPasses(a, b)
    \/ \E i \in DOMAIN passes : PassSetPool(i)
    \/ \E i \in DOMAIN passes : PassWriteTemp(i)
    \/ \E i \in DOMAIN passes : PassSetBlock(i)
    \/ \E i \in DOMAIN passes : PassGetPrimers(i)
    \/ \E i \in DOMAIN passes : PassEncode(i)
    \/ \E i \in DOMAIN passes : PassReturn(i)

SpecPasses == InitPasses /\ [][NextPasses]_vars
(***************************************************************************)
(* Properties.                                                             *)
(***************************************************************************)
\* A reconstruct_file call has returned.
Finished == pc = "idle" /\ ret.op = "reconstruct_file"

\* The block indices of the files encode_file wrote.
StoredIndices == {name[2] : name \in DOMAIN csv_files}

\* The positions in decoded_copies of the copies of block index k.
CopiesOf(k) == {i \in 1..Len(decoded_copies) : decoded_copies[i].index = k}

\* Those with the highest count of CRC-valid segments.
BestCopies(k) ==
    {i \in CopiesOf(k) :
        \A j \in CopiesOf(k) : decoded_copies[j].valid <= decoded_copies[i].valid}

\* The outputs that take, for each index of 0..k, the bytes of a best copy.
RECURSIVE BestOutputs(_)
BestOutputs(k) ==
    IF k < 0 THEN {<<>>}
    ELSE {o \o decoded_copies[i].bytes : o \in BestOutputs(k - 1), i \in BestCopies(k)}

\* The copy of block index k that came first in the list.
FirstCopy(k) == decoded_copies[CHOOSE i \in CopiesOf(k) : \A j \in CopiesOf(k) : i <= j]

\* Some block index came in several copies.
SeveralCopies ==
    \E i, j \in 1..Len(run_files) : i # j /\ run_files[i][2] = run_files[j][2]

\* Every file of the list decoded, and the copies of every block index have
\* the same count of CRC-valid segments.
AllTied ==
    /\ Len(decoded_copies) = Len(run_files)
    /\ \A i, j \in 1..Len(decoded_copies) :
           decoded_copies[i].index = decoded_copies[j].index
               => decoded_copies[i].valid = decoded_copies[j].valid

\* The concatenation, in index order, of the temporary files the kept blocks
\* name.
RECURSIVE KeptConcat(_)
KeptConcat(k) ==
    IF k < 0 THEN <<>> ELSE KeptConcat(k - 1) \o temp_dir[blocks_by_index[k].file]

\* C1: a non-empty file encoded with encode_file_to_dna under any block size
\* and decoded with decode_oligos_from_csv under the same flank pair comes
\* back byte for byte, also when it spans several blocks of a size that is
\* not a multiple of the 12-byte payload.
C1 ==
    (ret.op = "decode_oligos_from_csv" /\ Len(in_file) > 0) => decoded_file = in_file

\* C2: encode_file of a non-empty file followed by reconstruct_file over a
\* list that holds an undamaged copy of every block returns success and an
\* output equal to the input.
C2 ==
    ( /\ Finished
      /\ Len(in_file) > 0
      /\ StoredIndices # {}
      /\ \A k \in StoredIndices :
             \E i \in 1..Len(run_files) :
                 run_files[i][2] = k /\ run_files[i] \notin damaged )
        => (ret.success /\ output_file = in_file)

\* C3: for a non-empty file, encode reports success, and a decode that
\* follows it under the same Pool and Block reports success and writes the
\* bytes of the input, whatever the configured block size.
C3 ==
    [][ /\ (Len(in_file) > 0 /\ ret.op # "encode" /\ ret'.op = "encode") => ret'.success
        /\ (Len(in_file) > 0 /\ ret.op = "encode" /\ ret'.op = "decode")
               => (ret'.success /\ decoded_file' = in_file) ]_vars

\* C4: the empty file stored with encode_file and read back with
\* reconstruct_file over the files written reports success and gives the
\* empty byte stream.
C4 ==
    (Finished /\ Len(in_file) = 0 /\ encodes_left = 0)
        => (ret.success /\ output_file = <<>>)

\* C5: no oligo that bits_to_dna_with_crc32 emits (forward flank, address,
\* payload, checksum and reverse flank together) has a run of 4 or more
\* identical symbols.
C5 ==
    \A name \in DOMAIN csv_files : \A i \in 1..Len(csv_files[name]) :
        name \notin damaged => ~HasRun(csv_files[name][i].oligo, HOMOPOLYMER_LIMIT + 1)

\* C6: when the list holds several copies of a block index, the bytes written
\* for each block are those decoded from a copy with the highest count of
\* CRC-valid segments, in whatever order the copies come.
C6 ==
    (Finished /\ ret.success /\ SeveralCopies)
        => output_file \in BestOutputs(max_block_idx)

\* C7: when the copies of a block index have equal counts of CRC-valid
\* segments, the kept block info and the bytes written for the block are
\* those of the copy that came first in the list.
C7 ==
    (Finished /\ ret.success /\ SeveralCopies /\ AllTied)
        => /\ \A k \in DOMAIN blocks_by_index :
                  blocks_by_index[k].info = FirstCopy(k).info
           /\ output_file
                  = Flatten([k \in 1..(max_block_idx + 1) |-> FirstCopy(k - 1).bytes])

\* C8: at the completeness check of reconstruct_file with at least one block
\* kept, a missing index of 0..max_block_idx makes the call fail and leaves
\* the output file as it was, neither opened nor written; with every index
\* present the call succeeds and the output is the concatenation of the kept
\* blocks.
C8 ==
    [][ (pc = "reconstruct" /\ pc' = "idle" /\ DOMAIN blocks_by_index # {})
            => IF MissingIndices # {}
               THEN ~ret'.success /\ output_file' = output_file
               ELSE ret'.success /\ output_file' = KeptConcat(max_block_idx) ]_vars

\* C8 happens: a call that kept a block, missed an index, failed and left no
\* output file.
C8_Witness ==
    /\ Finished
    /\ ~ret.success
    /\ DOMAIN blocks_by_index # {}
    /\ MissingIndices # {}
    /\ output_file = NoFile

\* C9: what a failed reconstruct_file returns identifies the missing block
\* indices: two failed calls that return the same value miss the same
\* indices.
C9 ==
    \A a, b \in failed_runs : a.value = b.value => a.missing = b.missing

\* C10: for a 96-bit payload and its checksum, a received payload at Hamming
\* distance at most 1 verifies exactly when it is the payload itself.
C10 ==
    verified # <<>> => (verified[1] <=> received = payload)

\* C10 happens: a payload with one bit flipped was verified and rejected.
C10_Witness ==
    /\ verified = <<FALSE>>
    /\ Len(payload) = PAYLOAD_BITS
    /\ Cardinality({k \in 1..PAYLOAD_BITS : received[k] # payload[k]}) = 1

\* The bytes of block b of a file of n bytes cut into blocks of size bytes.
BytesOfBlock(n, size, b) == Min(size, n - b * size)

\* The number of blocks of such a file, and of segments of a block of n bytes.
CeilDiv(n, d) == (n + d - 1) \div d

\* The addresses, in emission order, of the rows of block b.
AddressesOf(rows, b) ==
    [k \in 1..Len(SelectSeq(rows, LAMBDA r : r.block_index = b)) |->
        BitsToInt(SelectSeq(rows, LAMBDA r : r.block_index = b)[k].address_bits)]

\* The addresses under which the decoder stored segments of block b.
DecodedAddresses(decoded_blocks, b) == {key[2] : key \in {k \in DOMAIN decoded_blocks : k[1] = b}}

\* C11: the rows encode_file_to_dna writes for a block carry the addresses
\* 1, 2, ..., ceil(actual_block_bytes / 12) in this order, and decoding the
\* unmodified rows stores the segments of the block under exactly these
\* addresses.
C11 ==
    (call.fn = "encode_file_to_dna" /\ PlainName \in DOMAIN csv_files /\ damaged = {})
        => \A b \in 0..(CeilDiv(Len(in_file), call.args[3]) - 1) :
               /\ AddressesOf(csv_files[PlainName], b)
                      = [k \in 1..CeilDiv(BytesOfBlock(Len(in_file), call.args[3], b),
                                          bytes_per_oligo) |-> k]
               /\ ret.op = "decode_oligos_from_csv"
                      => DecodedAddresses(ret.value[1], b)
                             = 1..CeilDiv(BytesOfBlock(Len(in_file), call.args[3], b),
                                          bytes_per_oligo)

\* C11 happens: a block of two segments and a file of two blocks were encoded
\* and decoded.
C11_Witness ==
    /\ ret.op = "decode_oligos_from_csv"
    /\ damaged = {}
    /\ \/ DecodedAddresses(ret.value[1], 0) = {1, 2}
       \/ DecodedAddresses(ret.value[1], 1) = {1}

\* C12: extract_oligo_parts applied to F + a + p + c + R with the primers F
\* and R of 22 symbols, a of 19, p of 96 and c of 32 symbols returns exactly
\* (a, p, c).
C12 ==
    call.fn = "extract_oligo_parts"
        => ret.value = [ok |-> TRUE, address_dna |-> call.args[1],
                        data_dna |-> call.args[2], crc32_dna |-> call.args[3]]

\* C12 happens: an oligo was split whose address starts like the forward
\* primer and whose checksum ends like the reverse primer.
C12_Witness ==
    /\ call.fn = "extract_oligo_parts"
    /\ ret.value.ok
    /\ StartsWith(call.args[4], call.args[1])
    /\ EndsWith(call.args[5], SubSeq(call.args[3], 1, PRIMER_LEN))

\* C18: whatever the bits, the initial window and the synonyms drawn,
\* encode_bits_to_dna returns one symbol per bit, each a symbol of the class of
\* its bit (also when the homopolymer rule replaced the symbol drawn), and
\* decode_dna_to_bits maps the result back to the bits.
C18 ==
    call.fn = "encode_bits_to_dna"
        => /\ Len(ret.value) = Len(call.args[1])
           /\ \A i \in 1..Len(ret.value) :
                  ret.value[i] \in {BIT_TO_BASE(call.args[1][i])[j] : j \in 1..2}
           /\ DecodableDna(ret.value)
           /\ decode_dna_to_bits(ret.value) = call.args[1]

\* C18 happens: a call replaced a symbol drawn by its synonym.
C18_Witness ==
    /\ call.fn = "encode_bits_to_dna"
    /\ \E i \in 1..Len(ret.value) :
           ret.value[i] # BIT_TO_BASE(call.args[1][i])[Choice(call.args[3], i)]

\* The loop and the function agree: a call followed from its start returns
\* the list bits_to_dna_with_crc32 yields for the bit string.
SegmentsAgree ==
    (loop.pc = "returned" /\ loop.first = 1)
        => ret.value = bits_to_dna_with_crc32(StreamBits(loop.bits), loop.forward_primer,
                                              loop.reverse_primer, loop.segment_length,
                                              loop.max_address, random_state, 0)

\* C13: every record bits_to_dna_with_crc32 appends under a ceiling up to the
\* default one has an address field of exactly 19 bits with a value in
\* 1..524287, and with both primers the oligo has 22+19+96+32+22 symbols.
C13 ==
    loop.pc # "none"
        => \A k \in 1..Len(loop.oligos_with_details) :
               /\ Len(loop.oligos_with_details[k].address_bits) = ADDRESS_BITS
               /\ BitsToInt(loop.oligos_with_details[k].address_bits) \in 1..(2^ADDRESS_BITS - 1)
               /\ Len(loop.oligos_with_details[k].oligo)
                      = PRIMER_LEN + ADDRESS_BITS + PAYLOAD_BITS + CRC_BITS + PRIMER_LEN

\* The call stopped at the break of line 70 with bits left over.
Truncated ==
    /\ loop.pc = "returned"
    /\ loop.first = 1
    /\ loop.i < loop.bits.len

\* C15: a call that stopped at the ceiling returns something that tells it
\* from a complete one: its value differs from the value of the call, under
\* the same ceiling and draws, on just the bits it consumed.
C15 ==
    Truncated
        => ret.value # bits_to_dna_with_crc32(StreamSlice(loop.bits, 0, loop.i),
                                              loop.forward_primer, loop.reverse_primer,
                                              loop.segment_length, loop.max_address,
                                              random_state, 0)

\* A primer given to an encode pass that is not 22 symbols long.
WrongLength(primer) == primer # NonePrimer /\ Len(primer) # PRIMER_LEN

\* C14: an encode pass whose forward or reverse primer is not exactly 22
\* symbols long (the empty primer included), given as an argument of
\* encode_file_to_dna or stored with register_primers and used by encode,
\* fails and writes no record.
C14 ==
    /\ (ret.op = "encode_file_to_dna"
            /\ (WrongLength(call.args[1]) \/ WrongLength(call.args[2])))
           => ~ret.success /\ csv_files = EmptyMap
    /\ (ret.op = "encode"
            /\ \E i \in 1..2 : WrongLength(get_primers(primer_registry, Pool, 0)[i]))
           => ~ret.success /\ csv_files = EmptyMap

\* The symbols from..to of the core of an oligo framed by the default primers.
CoreField(oligo, from, to) == SubSeq(oligo, PRIMER_LEN + from, PRIMER_LEN + to)

\* The field of the oligo equals the bits encoded alone from an empty window
\* with the draws the field consumed, and has no run of 4 identical symbols.
FieldAlone(field_dna, field_bits, rnd, drawn) ==
    /\ field_dna = encode_bits_to_dna(field_bits, <<>>, rnd, drawn)
    /\ ~HasRun(field_dna, HOMOPOLYMER_LIMIT + 1)

\* C17: in every record of an encode pass the address, the payload and the
\* checksum are each the encoding of their bits from an empty window, whatever
\* the field or the segment before ends with, and each field taken alone has
\* no run of 4 or more identical symbols.
C17 ==
    (call.fn = "encode_file_to_dna" /\ PlainName \in DOMAIN csv_files /\ damaged = {})
        => \A k \in 1..Len(csv_files[PlainName]) :
               /\ FieldAlone(CoreField(csv_files[PlainName][k].oligo, 1, ADDRESS_BITS),
                             csv_files[PlainName][k].address_bits, call.args[4],
                             (k - 1) * DrawsPerOligo)
               /\ FieldAlone(CoreField(csv_files[PlainName][k].oligo, ADDRESS_BITS + 1,
                                       ADDRESS_BITS + PAYLOAD_BITS),
                             csv_files[PlainName][k].data_bits, call.args[4],
                             (k - 1) * DrawsPerOligo + ADDRESS_BITS)
               /\ FieldAlone(CoreField(csv_files[PlainName][k].oligo,
                                       ADDRESS_BITS + PAYLOAD_BITS + 1, DrawsPerOligo),
                             csv_files[PlainName][k].crc32, call.args[4],
                             (k - 1) * DrawsPerOligo + ADDRESS_BITS + PAYLOAD_BITS)

\* C17 happens: a record was written in which a run of 4 identical symbols
\* crosses the border of two fields, and a second segment follows.
C17_Witness ==
    /\ call.fn = "encode_file_to_dna"
    /\ PlainName \in DOMAIN csv_files
    /\ Len(csv_files[PlainName]) >= 2
    /\ \E k \in 1..Len(csv_files[PlainName]) :
           HasRun(CoreField(csv_files[PlainName][k].oligo, 1, DrawsPerOligo),
                  HOMOPOLYMER_LIMIT + 1)

\* The parts of the oligo of a row under the default primers.
PartsOf(row) == extract_oligo_parts(row.oligo, DEFAULT_FORWARD_PRIMER, DEFAULT_REVERSE_PRIMER)

\* The row carries the 32 checksum symbols the decoder reads.
HasChecksum(row) == Len(PartsOf(row).crc32_dna) >= CRC_BITS

\* The row unframes and every symbol the decoder reads of it (the address, the
\* payload and, when there are 32 of them, the first 32 checksum symbols) is
\* a symbol of the alphabet.
Readable(row) ==
    /\ PartsOf(row).ok
    /\ DecodableDna(PartsOf(row).address_dna)
    /\ DecodableDna(PartsOf(row).data_dna)
    /\ HasChecksum(row) => DecodableDna(SubSeq(PartsOf(row).crc32_dna, 1, CRC_BITS))

\* The checksum symbols of the row are the CRC-32 of its payload symbols.
ChecksumHolds(row) ==
    calculate_crc32_checksum(decode_dna_to_bits(PartsOf(row).data_dna))
        = decode_dna_to_bits(SubSeq(PartsOf(row).crc32_dna, 1, CRC_BITS))

ValidRows(rows) ==
    {i \in 1..Len(rows) : Readable(rows[i]) /\ HasChecksum(rows[i]) /\ ChecksumHolds(rows[i])}

InvalidRows(rows) ==
    {i \in 1..Len(rows) : Readable(rows[i]) /\ HasChecksum(rows[i]) /\ ~ChecksumHolds(rows[i])}

MissingRows(rows) == {i \in 1..Len(rows) : Readable(rows[i]) /\ ~HasChecksum(rows[i])}

\* The rows without those at the positions in gone.
RowsWithout(rows, gone) ==
    [k \in 1..(Len(rows) - Cardinality(gone \cap (1..Len(rows)))) |->
        rows[CHOOSE i \in 1..Len(rows) :
                 /\ i \notin gone
                 /\ Cardinality((1..i) \ gone) = k]]

\* What decode_oligos_from_csv returns and writes for the rows, from no
\* output file.
DecodeOf(rows) ==
    decode_oligos_from_csv(rows, DEFAULT_FORWARD_PRIMER, DEFAULT_REVERSE_PRIMER, NoFile)

\* A decode pass over the CSV file has returned.
BatchDecoded == ret.op = "decode_oligos_from_csv" /\ PlainName \in DOMAIN csv_files

\* The key under which the decoder stores the row, and the payload it reads.
KeyOf(row) == <<row.block_index, BitsToInt(decode_dna_to_bits(PartsOf(row).address_dna))>>

DataOf(row) == decode_dna_to_bits(PartsOf(row).data_dna)

\* The rows the decoder stores.
AcceptedRows(rows) == ValidRows(rows) \cup MissingRows(rows)

MalformedRows(rows) == {i \in 1..Len(rows) : ~Readable(rows[i])}

DistinctForward ==
    \A j, k \in DOMAIN primer_registry :
        /\ Len(primer_registry[k][1]) = PRIMER_LEN
        /\ j # k => primer_registry[j][1] # primer_registry[k][1]

\* The sequence ClassifySequence was given.
Classified == FrameOligo(call.args[1], call.args[2], call.args[3])

\* C20: with pairwise distinct registered forward primers of 22 symbols,
\* ClassifySequence returns (p, b, core) for a core framed with the pair
\* registered for (p, b); for a sequence that no registered forward primer
\* starts it returns pool -1 and block -1 with the sequence stripped of the
\* default primers it carries.
C20 ==
    (call.fn = "ClassifySequence" /\ DistinctForward)
        => /\ \A key \in DOMAIN primer_registry :
                  primer_registry[key] = <<call.args[2], call.args[3]>>
                      => ret.value = <<key[1], key[2], call.args[1]>>
           /\ MatchingKeys(primer_registry, Classified) = {}
                  => ret.value = <<-1, -1,
                                   StripReverse(StripForward(Classified, DEFAULT_FORWARD_PRIMER),
                                                DEFAULT_REVERSE_PRIMER)>>

\* With registered reverse primers of 22 symbols, and sequences that carry
\* both default primers or none, ClassifySequence does as C20 says.
ClassifyFramed ==
    (/\ call.fn = "ClassifySequence"
     /\ DistinctForward
     /\ \A k \in DOMAIN primer_registry : Len(primer_registry[k][2]) = PRIMER_LEN
     /\ StartsWith(Classified, DEFAULT_FORWARD_PRIMER)
            <=> EndsWith(Classified, DEFAULT_REVERSE_PRIMER))
        => C20

\* The payload and the checksum symbols of the row still decode to the bits
\* written by the encode pass (the columns of the row).
FieldsIntact(row) ==
    /\ Readable(row)
    /\ HasChecksum(row)
    /\ DataOf(row) = row.data_bits
    /\ decode_dna_to_bits(SubSeq(PartsOf(row).crc32_dna, 1, CRC_BITS)) = row.crc32

\* The address of the row does not decode to the address written.
AddressAltered(row) ==
    PartsOf(row).ok /\ decode_dna_to_bits(PartsOf(row).address_dna) # row.address_bits

\* C25: the rows whose payload and checksum are unmodified are the rows counted
\* valid, whatever became of their address, and each is stored under the
\* address it now carries; of the accepted rows with one (block_index,
\* address) key, the payload of the last one is the one in the map.
C25 ==
    BatchDecoded
        => /\ ret.value[2].crc_stats.valid
                  = Cardinality({i \in 1..Len(csv_files[PlainName]) :
                                     FieldsIntact(csv_files[PlainName][i])})
           /\ \A i \in 1..Len(csv_files[PlainName]) :
                  FieldsIntact(csv_files[PlainName][i])
                      => KeyOf(csv_files[PlainName][i]) \in DOMAIN ret.value[1]
           /\ \A i \in AcceptedRows(csv_files[PlainName]) :
                  (\A j \in AcceptedRows(csv_files[PlainName]) :
                       j > i => KeyOf(csv_files[PlainName][j]) # KeyOf(csv_files[PlainName][i]))
                      => ret.value[1][KeyOf(csv_files[PlainName][i])]
                             = DataOf(csv_files[PlainName][i])

\* C25 happens: a row with an altered address and unmodified payload and
\* checksum was decoded, and an earlier accepted row with another payload
\* carries the same key.
C25_Witness ==
    /\ BatchDecoded
    /\ \E i, j \in AcceptedRows(csv_files[PlainName]) :
           /\ i < j
           /\ KeyOf(csv_files[PlainName][i]) = KeyOf(csv_files[PlainName][j])
           /\ DataOf(csv_files[PlainName][i]) # DataOf(csv_files[PlainName][j])
           /\ FieldsIntact(csv_files[PlainName][j])
           /\ AddressAltered(csv_files[PlainName][j])

\* A decode pass over the reads of the CSV file, by either decoder, returned.
ReadsDecoded ==
    /\ ret.op \in {"decode_oligos_from_csv", "decode_oligos_from_fastq"}
    /\ PlainName \in DOMAIN csv_files

\* The key of the row for the decoder that ran: the FASTQ decoder stores every
\* read under block 0.
StoredKey(row) ==
    <<IF ret.op = "decode_oligos_from_fastq" THEN 0 ELSE row.block_index, KeyOf(row)[2]>>

\* C28: a read whose checksum region has fewer than 32 symbols, or none, is
\* counted missing and its payload is stored (it is the payload in the map
\* unless a later accepted read has the same key), whether or not the payload
\* is the one written; the bytes written are those of all stored payloads in
\* key order; and the map never holds more segments than valid + missing.
C28 ==
    ReadsDecoded
        => /\ ret.value[2].crc_stats.missing = Cardinality(MissingRows(csv_files[PlainName]))
           /\ \A i \in MissingRows(csv_files[PlainName]) :
                  /\ StoredKey(csv_files[PlainName][i]) \in DOMAIN ret.value[1]
                  /\ (\A j \in AcceptedRows(csv_files[PlainName]) :
                          j > i => StoredKey(csv_files[PlainName][j])
                                       # StoredKey(csv_files[PlainName][i]))
                         => ret.value[1][StoredKey(csv_files[PlainName][i])]
                                = DataOf(csv_files[PlainName][i])
           /\ decoded_file
                  = DecodedOutput(ret.value[1],
                                  IF ret.op = "decode_oligos_from_fastq" THEN 0
                                  ELSE ret.value[2].total_file_size, NoFile)
           /\ Cardinality(DOMAIN ret.value[1])
                  <= ret.value[2].crc_stats.valid + ret.value[2].crc_stats.missing

\* C28 happens: a read without a whole checksum whose payload is not the one
\* written was stored.
C28_Witness ==
    /\ ReadsDecoded
    /\ \E i \in MissingRows(csv_files[PlainName]) :
           /\ DataOf(csv_files[PlainName][i]) # csv_files[PlainName][i].data_bits
           /\ StoredKey(csv_files[PlainName][i]) \in DOMAIN ret.value[1]
           /\ ret.value[1][StoredKey(csv_files[PlainName][i])] = DataOf(csv_files[PlainName][i])

\* The block indices of the files of the list of the call.
ListedIndices == {run_files[i][2] : i \in 1..Len(run_files)}

\* The block size encode_file cut the input with, as the records of block 0
\* declare it.
StoredBlockSize ==
    csv_files[CHOOSE name \in DOMAIN csv_files : name[2] = 0][1].block_size_bytes

\* The bytes of blocks 0..k of the input.
LeadingBlocks(k) == SubSeq(in_file, 1, Min((k + 1) * StoredBlockSize, Len(in_file)))

\* C26: a reconstruct_file call over undamaged copies of the blocks 0..k and
\* of no block above k reports success and writes the bytes of the blocks
\* 0..k, whatever the number of blocks stored.
C26 ==
    (Finished /\ ListedIndices # {} /\ ListedIndices = 0..MaxOf(ListedIndices))
        => /\ ret.success
           /\ output_file = LeadingBlocks(MaxOf(ListedIndices))

\* C26 happens: a call over the leading blocks of a file stored in more
\* blocks succeeded and wrote less than the input.
C26_Witness ==
    /\ Finished
    /\ ListedIndices # {}
    /\ ListedIndices = 0..MaxOf(ListedIndices)
    /\ \E k \in StoredIndices : k > MaxOf(ListedIndices)
    /\ ret.success
    /\ output_file = LeadingBlocks(MaxOf(ListedIndices))
    /\ Len(output_file) < Len(in_file)

\* The last record of a stored CSV file.
LastRow(name) == csv_files[name][Len(csv_files[name])]

\* The block indices of the files a returned encode_file names.
EncodedIndices(value) == {name[2] : name \in DOMAIN value.block_distribution}

\* C27: a successful decode of records that declare a positive block size
\* leaves block_size_bytes at the size the last record declares, which for a
\* file encode_file wrote is the length of the block, the number of bytes
\* decoded; so does every file decoded by reconstruct_file, whose final check
\* changes it no more; the encode_file that follows cuts the input into blocks
\* of the value left; and none of these reads changes the primer registry.
C27 ==
    [][ /\ (ret'.op = "decode" /\ ret'.success
              /\ LastRow(ret'.value.file).block_size_bytes > 0)
            => /\ block_size_bytes' = LastRow(ret'.value.file).block_size_bytes
               /\ block_size_bytes' = LastRow(ret'.value.file).actual_block_bytes
               /\ block_size_bytes' = Len(decoded_file')
               /\ primer_registry' = primer_registry
        /\ (pc = "reconstruct" /\ Len(decoded_copies') > Len(decoded_copies)
              /\ LastRow(decoded_copies'[Len(decoded_copies')].file).block_size_bytes > 0)
            => /\ block_size_bytes'
                      = LastRow(decoded_copies'[Len(decoded_copies')].file).block_size_bytes
               /\ block_size_bytes' = Len(decoded_copies'[Len(decoded_copies')].bytes)
               /\ primer_registry' = primer_registry
        /\ (pc = "reconstruct" /\ pc' = "idle")
            => /\ block_size_bytes' = block_size_bytes
               /\ primer_registry' = primer_registry
        /\ (ret'.op = "encode_file" /\ encodes_left' < encodes_left)
            => EncodedIndices(ret'.value)
                   = 0..(CeilDiv(Len(in_file), block_size_bytes) - 1) ]_vars

\* C27 happens: the second encode_file of a device with a registered pair
\* cut the input into blocks of a size that was never configured, the length
\* of a block read back.
C27_Witness ==
    /\ ret.op = "encode_file"
    /\ encodes_left = 0
    /\ primer_registry # EmptyMap
    /\ block_size_bytes \notin ReportBlockSizes \cup {DEFAULT_BLOCK_SIZE}
    /\ block_size_bytes < Len(in_file)
    /\ EncodedIndices(ret.value) = 0..(CeilDiv(Len(in_file), block_size_bytes) - 1)

\* The list of the call holds one copy of every block index it names.
OneCopyEach ==
    \A i, j \in 1..Len(run_files) : run_files[i][2] = run_files[j][2] => i = j

\* The list of the call is not in the order of the block indices.
OutOfOrder ==
    \E i, j \in 1..Len(run_files) : i < j /\ run_files[i][2] > run_files[j][2]

\* C21: a decode pass over the records of a CSV file put in another order
\* (the keys of the records are distinct) stores the same map and leaves the
\* same output as the pass before, the bytes of the payloads in the order of
\* the keys; and a reconstruct_file call over a list with one undamaged copy
\* of each of its blocks ends the same way whatever the order of the list:
\* with the bytes of the blocks 0..k in index order when the list names
\* exactly those, without success and with the output untouched otherwise.
C21 ==
    [][ /\ (ret.op = "shuffle" /\ ret'.op = "decode_oligos_from_csv")
            => /\ ret'.value[1] = ret.value[1]
               /\ decoded_file' = decoded_file
               /\ decoded_file'
                      = DecodedOutput(ret'.value[1], ret'.value[2].total_file_size, NoFile)
        /\ (pc = "reconstruct" /\ pc' = "idle" /\ run_files # <<>> /\ OneCopyEach)
            => IF ListedIndices = 0..MaxOf(ListedIndices)
               THEN ret'.success /\ output_file' = LeadingBlocks(MaxOf(ListedIndices))
               ELSE ~ret'.success /\ output_file' = output_file ]_vars

\* C21 happens: a list of several block files, not in the order of their
\* indices, was reconstructed with success.
C21_Witness ==
    /\ Finished
    /\ ret.success
    /\ OneCopyEach
    /\ OutOfOrder
    /\ ListedIndices = 0..MaxOf(ListedIndices)
    /\ output_file = LeadingBlocks(MaxOf(ListedIndices))

\* The records of a CSV file of several records, not in the order of their
\* keys, were decoded again to the same non-empty output.
ShuffledDecoded ==
    /\ ret.op = "decode_oligos_from_csv"
    /\ PlainName \in DOMAIN csv_files
    /\ \E i, j \in 1..Len(csv_files[PlainName]) :
           i < j /\ KeyLess(KeyOf(csv_files[PlainName][j]), KeyOf(csv_files[PlainName][i]))
    /\ decoded_file # NoFile
    /\ Cardinality(DOMAIN ret.value[1]) = Len(csv_files[PlainName])

\* The pools the policy names for block b of total blocks.
PoolsOf(policy, b, total) ==
    {distribution_strategy(policy, b, total)[k] :
        k \in 1..Len(distribution_strategy(policy, b, total))}

\* The bytes [b * size, min((b + 1) * size, file size)) of the input.
InputSlice(b, size) == Slice(in_file, b * size, (b + 1) * size)

\* The records hold the bits of the bytes, in order, padded at the end.
RowsHold(rows, bytes) ==
    /\ Len(Flatten([i \in 1..Len(rows) |-> rows[i].data_bits])) >= 8 * Len(bytes)
    /\ SubSeq(Flatten([i \in 1..Len(rows) |-> rows[i].data_bits]), 1, 8 * Len(bytes))
           = BytesToBits(bytes)
    /\ Len(rows) = CeilDiv(Len(bytes), bytes_per_oligo)

\* Every record is framed with the pair.
RowsFramed(rows, primers) ==
    \A i \in 1..Len(rows) :
        /\ StartsWith(rows[i].oligo, primers[1])
        /\ EndsWith(rows[i].oligo, primers[2])
        /\ Len(rows[i].oligo) = Len(primers[1]) + DrawsPerOligo + Len(primers[2])

\* What a returned encode_file has done for the pair (p, b).
PassDone(value, p, b) ==
    /\ value.block_distribution[<<p, b>>].file = <<p, b>>
    /\ value.block_distribution[<<p, b>>].info.pool = p
    /\ value.block_distribution[<<p, b>>].info.block_index = b
    /\ value.block_distribution[<<p, b>>].info.block_size
           = Len(InputSlice(b, value.block_size_bytes))
    /\ RowsHold(csv_files[<<p, b>>], InputSlice(b, value.block_size_bytes))
    /\ RowsFramed(csv_files[<<p, b>>], get_primers(primer_registry, p, b))

\* The pairs (p, b) of the blocks 0..total - 1 and the pools the policy names
\* for each (the policies name pools among 1, 2 and 3).
ExpectedKeys(policy, total) ==
    {key \in (1..3) \X (0..(total - 1)) : key[1] \in PoolsOf(policy, key[2], total)}

\* C22: when encode_file returns, the mapping has exactly the keys (p, b)
\* for b in 0..ceil(file size / block size) - 1 and p among the pools the
\* policy names for b, and the file of each key holds the records of the
\* bytes [b * block size, min((b + 1) * block size, file size)) of the
\* input, framed with get_primers(p, b).
C22 ==
    ret.op = "encode_file"
        => /\ DOMAIN ret.value.block_distribution
                  = ExpectedKeys(ret.value.policy,
                                 CeilDiv(Len(in_file), ret.value.block_size_bytes))
           /\ \A key \in DOMAIN ret.value.block_distribution :
                  PassDone(ret.value, key[1], key[2])

\* C22 happens: a file of several blocks was stored, one block in two pools,
\* one of them under a registered pair that is not the default one.
C22_Witness ==
    /\ ret.op = "encode_file"
    /\ \E b \in 1..Len(in_file) :
           /\ {<<1, b>>, <<2, b>>} \subseteq DOMAIN ret.value.block_distribution
           /\ <<2, 0>> \notin DOMAIN ret.value.block_distribution
           /\ \E p \in {1, 2} :
                  /\ <<p, b>> \in DOMAIN primer_registry
                  /\ primer_registry[<<p, b>>][1] # DEFAULT_FORWARD_PRIMER
                  /\ PassDone(ret.value, p, b)

\* The call has returned one of its two results.
Complete == Finished /\ ret.success /\ output_file # NoFile

Incomplete == Finished /\ ~ret.success /\ output_file = NoFile

\* C23: the output file changes only in the step that ends a call, after
\* every file of the list was decoded and with no index of 0..max_block_idx
\* missing; a call takes one step for each file of its list and then ends in
\* exactly one way, with success and the kept blocks written or without
\* success and the output as it was; a call begins only when the caller
\* begins it; and a call that has begun ends.
C23 ==
    /\ [][ /\ output_file' # output_file
               => /\ pc = "reconstruct" /\ pc' = "idle"
                  /\ block_files = <<>>
                  /\ DOMAIN blocks_by_index # {} /\ MissingIndices = {}
                  /\ ret'.success
           /\ (pc = "reconstruct" /\ pc' = "reconstruct")
               => /\ block_files # <<>>
                  /\ block_files' = Tail(block_files)
                  /\ output_file' = output_file
           /\ (pc = "reconstruct" /\ pc' = "idle")
               => /\ block_files = <<>>
                  /\ (ret'.success /\ output_file' = KeptConcat(max_block_idx))
                         # (~ret'.success /\ output_file' = output_file)
                  /\ Complete' # Incomplete'
           /\ (pc = "idle" /\ pc' = "reconstruct")
               => /\ runs_left' = runs_left - 1
                  /\ block_files' = run_files' ]_vars
    /\ (pc = "reconstruct") ~> (Complete \/ Incomplete)

\* C23 happens: a call over several files ended with success and the output
\* written.
C23_Witness ==
    /\ Complete
    /\ Len(run_files) > 1
    /\ block_files = <<>>
    /\ output_file = KeptConcat(max_block_idx)

\* Pass i has returned.
PassDoneAt(i) == i \in DOMAIN passes /\ passes[i].pc = "done"

\* C24: whatever the interleaving of two encode passes for different (pool,
\* block) pairs on one device, a pass that has returned has succeeded, names
\* its own pool, and has written records that hold its own bytes of the input
\* and are framed with the pair of its own (pool, block).
C24 ==
    \A i \in DOMAIN passes :
        PassDoneAt(i)
            => /\ passes[i].success
               /\ passes[i].pool = passes[i].pool_idx
               /\ passes[i].block_size
                      = Len(InputSlice(passes[i].block_idx, block_size_bytes))
               /\ <<passes[i].pool_idx, passes[i].block_idx>> \in DOMAIN csv_files
               /\ RowsHold(csv_files[<<passes[i].pool_idx, passes[i].block_idx>>],
                           InputSlice(passes[i].block_idx, block_size_bytes))
               /\ RowsFramed(csv_files[<<passes[i].pool_idx, passes[i].block_idx>>],
                             get_primers(primer_registry, passes[i].pool_idx,
                                         passes[i].block_idx))

\* A pass that takes all its steps before the other pass takes its first one
\* does what C24 says.
PassAlone ==
    (passes # <<>> /\ passes[2].pc = "set_pool") => C24
====
